---- MODULE Spec2Model ----
(***************************************************************************)
(* Turn orchestration of the realtime gateway (src/unnamed/part_000,       *)
(* app.ws("/realtime-ws")).  One client connection is one session.  Every  *)
(* handler of the connection is an async function: it runs until its next  *)
(* await on I/O (model, store, tool back end) and is resumed when that I/O *)
(* completes, while other handlers of the same session may start or        *)
(* continue in between.  A handler invocation is a task: a stack of        *)
(* frames, one per async function being executed, each with its position.  *)
(* An action of the model is an arrival of an event or the completion of   *)
(* an I/O; it runs the resumed task up to its next await.                  *)
(* An await on a value that needs no I/O (an async function that returned  *)
(* without awaiting) gives no other handler the chance to run and is not a *)
(* scheduling point of the model.                                          *)
(***************************************************************************)
EXTENDS Integers, Sequences, FiniteSets, Bags, TLC

(* ------------------------------ bounds -------------------------------- *)
\* events (client messages, webhooks, corrections, close) delivered in a run
MaxEvents == 2
\* handler invocations in progress at the same time
MaxTasks == 2
\* function-call parts the model emits in a run
MaxFunctionCalls == 3
\* parts of one model stream
MaxParts == 2
\* failed calls of the model or of the store in a run
MaxFailures == 1
\* clock ticks (one tick is 5 seconds) in a run
MaxTicks == 2
\* deliveries of the booking webhook to the session in a run
MaxWebhooks == 3

(* ------------------------- program constants -------------------------- *)
\* the clock counts 5-second ticks; start times count 5-minute slots
NEAR_WINDOW_MS == 1
ANTI_DUP_MS == 2
\* the clock is far from the epoch when the process starts
StartNow == 4
\* the shared secrets of the HTTP endpoints
SUPERVISOR_SECRET == "un_secreto"
CALCOM_WEBHOOK_SECRET == "otro_secreto"

(* ------------------------------ values -------------------------------- *)
NoCall == [name |-> "none", args |-> "none"]
NoId == "none"
NoStart == -1

\* tools a bot can register, and a name no bot registers
ToolNames == {"ejecutar_orden_n8n", "abrir_modal_agendamiento", "navegar_web", "search_properties"}
Calls ==
  { [name |-> "ejecutar_orden_n8n", args |-> "email"],
    [name |-> "ejecutar_orden_n8n", args |-> "otro"],
    [name |-> "ejecutar_orden_n8n", args |-> "no_texto"],   \* orden is not a string
    [name |-> "abrir_modal_agendamiento", args |-> "x"],
    [name |-> "navegar_web", args |-> "inicio"],
    [name |-> "search_properties", args |-> "q"],
    [name |-> "desconocida", args |-> "x"] }

TextPart == [text |-> TRUE, call |-> NoCall]
CallPart(fc) == [text |-> FALSE, call |-> fc]
Parts == {TextPart} \cup {CallPart(fc) : fc \in Calls}

RECURSIVE SeqsUpTo(_, _)
SeqsUpTo(S, n) ==
  IF n = 0 THEN {<<>>}
  ELSE LET shorter == SeqsUpTo(S, n - 1)
       IN shorter \cup {Append(q, x) : q \in {r \in shorter : Len(r) = n - 1}, x \in S}

Streams == SeqsUpTo(Parts, MaxParts)

RECURSIVE CountCalls(_)
CountCalls(parts) ==
  IF parts = <<>> THEN 0
  ELSE (IF Head(parts).call # NoCall THEN 1 ELSE 0) + CountCalls(Tail(parts))

RECURSIVE CountTexts(_)
CountTexts(parts) ==
  IF parts = <<>> THEN 0
  ELSE (IF Head(parts).text THEN 1 ELSE 0) + CountTexts(Tail(parts))

\* bot documents of the store (InteracBotGPT)
BotConfigs ==
  { [supervised |-> TRUE, tools |-> ToolNames],
    [supervised |-> FALSE, tools |-> ToolNames],
    [supervised |-> FALSE, tools |-> {}] }

\* payloads of the booking webhook
BookingEvents ==
  { [id |-> "b1", start |-> 0],
    [id |-> NoId, start |-> 0],
    [id |-> NoId, start |-> 1] }

\* appointmentData of user_action_completed: a start time, or none
AppointmentData == {NoStart, 0}

\* normalized final transcripts of the speech service
FinalTranscripts == {"", "hola"}
\* the same with blanks around them and with capitals
RawTranscripts == {"", " ", "hola", " Hola ", "HOLA", "adios"}

(* ------------------------------ state --------------------------------- *)
VARIABLES
  wsOpen,                      \* clientWs.readyState === WS_OPEN
  geminiChat,                  \* geminiChat !== null
  conversationId,              \* conversationId / conversationCreated
  isSupervised,
  toolHandlers,                \* names with a handler
  isPausedForUserAction,
  seenToolCalls,
  isCorrecting,
  fullConversationTranscript,  \* sequence of turn records (speaker)
  currentUserTranscript,
  lastFinalNorm,
  lastBookingIdProcessed,
  lastBookingStartISO,
  bookingAnnouncedTs,
  activeConnections,           \* conversation identifiers with a registry entry
  tasks,                       \* handler invocations in progress (a bag)
  stored,                      \* BotTranscripcion of the Conversations document
  writes,                      \* store writes in flight
  pendingBookingEvents,        \* PendingBookingEvents/latest of the conversations
  now,                         \* Date.now()
  recognizeStream,             \* the transcription stream in use, if any
  sttListeners,                \* streams created whose end or error is yet to come
  hist                         \* bookkeeping of the run (budgets, last event, finished turn)

vars == <<recognizeStream, sttListeners,
          wsOpen, geminiChat, conversationId, isSupervised, toolHandlers,
          isPausedForUserAction, seenToolCalls, isCorrecting,
          fullConversationTranscript, currentUserTranscript, lastFinalNorm,
          lastBookingIdProcessed, lastBookingStartISO, bookingAnnouncedTs,
          activeConnections, tasks, stored, writes, pendingBookingEvents, now, hist>>

(* ------------------------ tasks and their frames ---------------------- *)
\* a frame is one async function in execution: its name, its position and
\* its locals
Frame(fn) ==
  [ fn |-> fn, pc |-> "entry",
    text |-> 0,            \* fullText / followText: number of text parts
    call |-> NoCall,       \* pendingFunctionCall / functionCall
    hadText |-> FALSE,     \* hadTextBeforeTool
    supervise |-> FALSE, clear |-> FALSE,
    result |-> "none",     \* result.status of the tool handler
    ret |-> "none",        \* outcome of the I/O the frame awaited
    stream |-> <<>>,       \* parts of the model stream to consume
    snap |-> <<>>,         \* transcript carried by the awaited store write
    ncalls |-> 0, first |-> NoCall,  \* function-call parts of the consumed stream
    ntext |-> 0,                     \* text parts of the consumed stream
    toolCallId |-> 0,                \* meta.toolCallId given to the tool handler
    multi |-> FALSE,                 \* the dispatched call came with other calls
    id |-> NoId, start |-> NoStart, ts |-> 0,    \* bookingId, startISO, now
    transcript |-> "",                           \* transcript of the final speech result
    cfg |-> [supervised |-> FALSE, tools |-> {}] ]  \* botData

IdleTask ==
  [ kind |-> "idle", stack |-> <<>>,
    log |-> <<>>,          \* messages the task sent to the client, in order
    calls |-> 0,           \* calls of the model the task started
    engines |-> 0,         \* calls of getGeminiResponse
    reports |-> <<>>,      \* supervision reports the task sent
    finals |-> 0,          \* assistant_final commits
    gens |-> 0,            \* generation steps that ended without error
    texty |-> 0,           \* generation steps that ended with non-empty text
    dispatched |-> 0,      \* calls of handleFunctionCall
    asked |-> <<>>,        \* dedupe keys of the calls given to handleFunctionCall
    pre |-> <<>>,          \* for each of them: the text parts of its stream, and
                           \* the messages sent when handleFunctionCall is called
    execd |-> <<>>,        \* dedupe keys of the tool handlers that ran
    passed |-> 0,          \* calls that passed the dedupe check
    records |-> 0,         \* tool-execution records appended to the transcript
    responses |-> <<>>,    \* function responses given to the model: the tool, the
                           \* status, the messages sent and the events delivered
                           \* by then
    followUps |-> <<>>,    \* calls of streamFollowUpAfterTool
    thrown |-> <<>>,       \* exceptions caught by handleFunctionCall
    posted |-> <<>>,       \* idempotency keys of the orders posted to n8n
    heard |-> "",          \* transcript of the speech result that started the task
    suppressed |-> 0,      \* orders answered with "Duplicate suppressed"
    orphaned |-> 0,        \* keys of dispatches in progress that a clear removed
    multi |-> 0,           \* consumed streams with two or more function calls
    multiDisp |-> 0,       \* dispatches of a call of such a stream
    multiExec |-> 0,       \* handlers run for a call of such a stream
    notFirst |-> 0,        \* dispatches of a call that was not the first of its stream
    discarded |-> FALSE,   \* an input was dropped by the pause check
    paused |-> FALSE,      \* the pause flag when the event of the task arrived
    id |-> NoId, start |-> NoStart,   \* booking of the event that started the task
    streamFails |-> 0,     \* streaming calls of the model that failed
    failed |-> FALSE ]     \* a call of the model failed

NewTask(kind, fr) ==
  [IdleTask EXCEPT !.kind = kind, !.stack = <<fr>>, !.id = fr.id, !.start = fr.start,
                   !.heard = fr.transcript]

\* an HTTP request to one of the two endpoints, and the answer to it
NoRequest ==
  [ secret |-> "none",            \* header x-supervisor-secret
    signedWith |-> "none",        \* secret that made x-cal-signature-256
    json |-> TRUE,                \* the body parses as JSON
    trigger |-> "none",           \* payload.triggerEvent
    conversationId |-> NoId,      \* body.conversationId / metadata.convoId
    correctionMessage |-> FALSE,  \* the body has a correctionMessage
    id |-> NoId, start |-> NoStart ]   \* booking of the payload

Http(route, status, req) == [route |-> route, status |-> status, req |-> req]
NoResponse == Http("none", 0, NoRequest)

\* no transcription stream
NoStream == 0

\* what the last step did to the transcription streams: the event, the
\* stream that emitted it, and the stream that was in use
NoSttEvent == [event |-> "none", stream |-> NoStream, active |-> NoStream]

\* the state as one record, so that the code of a handler can be written as
\* a function from state to state
State ==
  [ wsOpen |-> wsOpen, geminiChat |-> geminiChat, conversationId |-> conversationId,
    isSupervised |-> isSupervised, toolHandlers |-> toolHandlers,
    isPausedForUserAction |-> isPausedForUserAction, seenToolCalls |-> seenToolCalls,
    isCorrecting |-> isCorrecting,
    fullConversationTranscript |-> fullConversationTranscript,
    currentUserTranscript |-> currentUserTranscript, lastFinalNorm |-> lastFinalNorm,
    lastBookingIdProcessed |-> lastBookingIdProcessed,
    lastBookingStartISO |-> lastBookingStartISO,
    bookingAnnouncedTs |-> bookingAnnouncedTs,
    activeConnections |-> activeConnections, stored |-> stored, writes |-> writes,
    pendingBookingEvents |-> pendingBookingEvents,
    now |-> now, recognizeStream |-> recognizeStream, sttListeners |-> sttListeners,
    \* the turn that arrived or finished, the HTTP answer given and the
    \* assistant text sent in the last step are forgotten
    hist |-> [hist EXCEPT !.arrived = IdleTask, !.lastTurn = IdleTask,
                          !.http = NoResponse, !.spoke = FALSE,
                          !.supervisionFailed = FALSE, !.stt = NoSttEvent] ]

Apply(s0, tk) ==
  \E s \in {s0} :
  /\ wsOpen' = s.wsOpen
  /\ geminiChat' = s.geminiChat
  /\ conversationId' = s.conversationId
  /\ isSupervised' = s.isSupervised
  /\ toolHandlers' = s.toolHandlers
  /\ isPausedForUserAction' = s.isPausedForUserAction
  /\ seenToolCalls' = s.seenToolCalls
  /\ isCorrecting' = s.isCorrecting
  /\ fullConversationTranscript' = s.fullConversationTranscript
  /\ currentUserTranscript' = s.currentUserTranscript
  /\ lastFinalNorm' = s.lastFinalNorm
  /\ lastBookingIdProcessed' = s.lastBookingIdProcessed
  /\ lastBookingStartISO' = s.lastBookingStartISO
  /\ bookingAnnouncedTs' = s.bookingAnnouncedTs
  /\ activeConnections' = s.activeConnections
  /\ stored' = s.stored
  /\ writes' = s.writes
  /\ pendingBookingEvents' = s.pendingBookingEvents
  /\ now' = s.now
  /\ recognizeStream' = s.recognizeStream
  /\ sttListeners' = s.sttListeners
  /\ hist' = s.hist
  /\ tasks' = tk


\* positions at which a frame waits for I/O, and where it continues
AwaitPcs == {"await_stream", "await_send", "await_fallback", "await_write",
             "await_tool", "await_tx", "await_cfg", "await_add"}

Resumed(pc) ==
  CASE pc = "await_stream" -> "stream"
    [] pc = "await_send" -> "sent"
    [] pc = "await_fallback" -> "fallback_done"
    [] pc = "await_write" -> "post"
    [] pc = "await_tool" -> "after_tool"
    [] pc = "await_tx" -> "tx_done"
    [] pc = "await_cfg" -> "cfg_done"
    [] pc = "await_add" -> "add_done"

\* a configuration is the state (s) and the running task (t)
Top(c) == c.t.stack[Len(c.t.stack)]
Goto(c, pc) == [c EXCEPT !.t.stack[Len(c.t.stack)].pc = pc]
Return(c) == [c EXCEPT !.t.stack = SubSeq(@, 1, Len(@) - 1)]
Call(c, retpc, fr) ==
  [c EXCEPT !.t.stack = Append([@ EXCEPT ![Len(@)].pc = retpc], fr)]

Msg(type) == [type |-> type, tool |-> "none", ok |-> TRUE]
ToolMsg(type, name, ok) == [type |-> type, tool |-> name, ok |-> ok]

\* messages that the Dialogue Engine and the tool executor send
EngineMsgTypes == {"assistant_delta", "assistant_final", "error",
                   "tool_execution_start", "tool_execution_end",
                   "schedule_appointment_action"}

\* the messages that carry text of the assistant
SpeechTypes == {"assistant_delta", "assistant_final"}

safeSend(c, m) ==
  IF c.s.wsOpen
  THEN [c EXCEPT !.t.log = Append(@, m),
                 !.s.hist.spoke = @ \/ m.type \in SpeechTypes]
  ELSE c

HasDoc(s) == s.conversationId # NoId

\* adminDb...update({BotTranscripcion: fullConversationTranscript}): the
\* write carries the transcript as it is when the call is made
IssueUpdate(c, awaited) ==
  IF awaited
  THEN [c EXCEPT !.t.stack[Len(c.t.stack)].snap = c.s.fullConversationTranscript]
  ELSE [c EXCEPT !.s.writes = @ \cup {c.s.fullConversationTranscript}]

\* adminDb.runTransaction of applyCorrection: appends to what the document
\* holds when the transaction commits
IssueTransaction(c) ==
  [c EXCEPT !.t.stack[Len(c.t.stack)].snap = <<"SUPERVISOR">>]

\* geminiChat.sendMessageStream / geminiChat.sendMessage
StartModelCall(c) == [c EXCEPT !.t.calls = @ + 1]

\* the POST to the supervisor is started and not awaited
triggerSupervisorWorkflow(c, type) ==
  [c EXCEPT !.t.reports = Append(@,
     [type |-> type, userInput |-> c.s.currentUserTranscript]),
            !.s.hist.supervisions = @ + 1]


(* --------------------------- Dialogue Engine -------------------------- *)
CommitFrame(text, supervise, clear) ==
  [Frame("commitAssistantFinal") EXCEPT !.text = text, !.supervise = supervise, !.clear = clear]

\* the condition of the optional supervision report of commitAssistantFinal
SuperviseText(s, supervise) == supervise /\ s.isSupervised /\ ~s.isCorrecting

EmptyFinalNever(f) == FALSE

\* if (!final) return;
EmptyFinal(f) == f.text = 0

commitAssistantFinal(c, f) ==
  CASE f.pc = "entry" ->
         IF EmptyFinal(f) THEN Return(c)
         ELSE LET c1 == [safeSend(c, Msg("assistant_final")) EXCEPT
                           !.s.fullConversationTranscript = Append(@, "AI-BOT"),
                           !.t.finals = @ + 1]
              IN IF HasDoc(c1.s) THEN Goto(IssueUpdate(c1, TRUE), "await_write")
                 ELSE Goto(c1, "post")
    [] f.pc = "post" ->
         LET c1 == IF SuperviseText(c.s, f.supervise)
                   THEN triggerSupervisorWorkflow(c, "text") ELSE c
             c2 == IF f.clear
                   THEN [c1 EXCEPT !.s.currentUserTranscript = "", !.s.isCorrecting = FALSE]
                   ELSE c1
         IN Return(c2)

CapturesAnyCall(part, toolAlreadyHandledThisTurn) == part.call # NoCall

\* if (part.functionCall && !toolAlreadyHandledThisTurn)
CapturesCall(part, toolAlreadyHandledThisTurn) ==
  part.call # NoCall /\ ~toolAlreadyHandledThisTurn

\* the loop over the parts of the stream: text is accumulated, the first
\* function call is kept for the end of the stream
ForwardsTextBeforeCall(part, toolAlreadyHandledThisTurn) ==
  part.text /\ ~toolAlreadyHandledThisTurn

\* if (part && typeof part.text === "string" && part.text.length > 0)
ForwardsText(part, toolAlreadyHandledThisTurn) == part.text

RECURSIVE ConsumeParts(_, _)
ConsumeParts(parts, acc) ==
  IF parts = <<>> THEN acc
  ELSE LET part == Head(parts)
           a1 == IF ForwardsText(part, acc.handled) THEN [acc EXCEPT !.text = @ + 1] ELSE acc
           a2 == IF CapturesCall(part, a1.handled)
                 THEN [a1 EXCEPT !.handled = TRUE, !.call = part.call] ELSE a1
       IN ConsumeParts(Tail(parts), a2)

RECURSIVE SendDeltas(_, _)
SendDeltas(c, n) ==
  IF n = 0 THEN c ELSE SendDeltas(safeSend(c, Msg("assistant_delta")), n - 1)

PausedDiscardNever(s) == FALSE

\* if (isPausedForUserAction) return;
PausedDiscard(s) == s.isPausedForUserAction

\* a turn started by a resume path that reaches the model is a narration
CountNarration(c) ==
  IF c.t.kind \in {"resumeWithBookingData", "user_action_completed"} /\ Len(c.t.stack) = 2
  THEN [c EXCEPT !.s.hist.race.narr = @ + 1] ELSE c

StreamFailedSilently(c) ==
  Return([c EXCEPT !.t.failed = TRUE, !.t.streamFails = @ + 1,
                   !.s.hist.streamFailures = @ + 1])

\* catch (error) { safeSend(clientWs, {type: "error", ...}) } around the
\* streaming call and the loop over its chunks
StreamFailed(c) ==
  Return([safeSend(c, Msg("error")) EXCEPT
            !.t.failed = TRUE, !.t.streamFails = @ + 1,
            !.s.hist.streamFailures = @ + 1])

\* the first function-call part of a stream
RECURSIVE FirstCall(_)
FirstCall(parts) ==
  IF parts = <<>> THEN NoCall
  ELSE IF Head(parts).call # NoCall THEN Head(parts).call ELSE FirstCall(Tail(parts))

getGeminiResponse(c, f) ==
  LET n == Len(c.t.stack) IN
  CASE f.pc = "entry" -> Goto([c EXCEPT !.t.engines = @ + 1], "checks")
    [] f.pc = "checks" ->
         IF ~c.s.geminiChat THEN Return(c)
         ELSE IF PausedDiscard(c.s) THEN Return([c EXCEPT !.t.discarded = TRUE])
         ELSE Goto(CountNarration(StartModelCall(c)), "await_stream")
    [] f.pc = "stream" ->
         LET acc == ConsumeParts(f.stream, [text |-> 0, call |-> NoCall, handled |-> FALSE])
             c1 == [SendDeltas(c, acc.text) EXCEPT !.t.stack[n].stream = <<>>]
         IN IF f.ret = "error"
            THEN StreamFailed(c1)
            ELSE LET c2 == [c1 EXCEPT !.t.gens = @ + 1,
                                      !.t.texty = IF acc.text > 0 THEN @ + 1 ELSE @,
                                      !.t.multi = IF CountCalls(f.stream) >= 2 THEN @ + 1 ELSE @,
                                      !.t.stack[n].text = acc.text,
                                      !.t.stack[n].call = acc.call,
                                      !.t.stack[n].hadText = acc.text > 0,
                                      !.t.stack[n].ncalls = CountCalls(f.stream),
                                      !.t.stack[n].ntext = CountTexts(f.stream),
                                      !.t.stack[n].first = FirstCall(f.stream)]
                 IN IF acc.call # NoCall
                    THEN IF acc.text > 0
                         THEN Call(c2, "dispatch", CommitFrame(acc.text, FALSE, FALSE))
                         ELSE Goto(c2, "dispatch")
                    ELSE Call(c2, "ret", CommitFrame(acc.text, TRUE, TRUE))
    [] f.pc = "dispatch" ->
         Call([c EXCEPT !.t.dispatched = @ + 1,
                        !.t.asked = Append(@, <<f.call.name, f.call.args>>),
                        !.t.pre = Append(@, [texts |-> f.ntext, at |-> Len(c.t.log)]),
                        !.t.multiDisp = IF f.ncalls >= 2 THEN @ + 1 ELSE @,
                        !.t.notFirst = IF f.call # f.first THEN @ + 1 ELSE @],
              "ret",
              [Frame("handleFunctionCall") EXCEPT !.call = f.call, !.hadText = f.hadText,
                                                  !.multi = f.ncalls >= 2])
    [] f.pc = "ret" -> Return(c)

(* ----------------------- Tool Registry & Executor --------------------- *)
Key(fc) == <<fc.name, fc.args>>

\* a dedupe check that lets every call through
DedupeNever(s, key) == FALSE

\* if (seenToolCalls.has(key)) return;
DedupeHit(s, key) == key \in s.seenToolCalls

\* bookkeeping of one wait for a booking: the resume events delivered since
\* the pause began and the narrations they started
NoRace ==
  [waiting |-> FALSE, webhooks |-> 0, uacs |-> 0, narr |-> 0,
   whStart |-> NoStart, uacStart |-> NoStart]

\* isPausedForUserAction = true, and the start of a new wait for a booking
SetPaused(c) ==
  [c EXCEPT !.s.isPausedForUserAction = TRUE,
            !.s.hist.race = IF c.s.isPausedForUserAction THEN @
                            ELSE [NoRace EXCEPT !.waiting = TRUE]]

\* handlers that return without waiting for a back end
ReachableAlways(s) == TRUE

\* if (clientWs && clientWs.readyState === WS_OPEN)
Reachable(s) == s.wsOpen

abrir_modal_agendamiento(c) ==
  IF Reachable(c.s)
  THEN [SetPaused(safeSend(c, Msg("schedule_appointment_action"))) EXCEPT
          !.t.stack[Len(c.t.stack)].result = "success"]
  ELSE [c EXCEPT !.t.stack[Len(c.t.stack)].result = "error"]

navegar_web(c) ==
  [c EXCEPT !.t.stack[Len(c.t.stack)].result = IF c.s.wsOpen THEN "success" ELSE "error"]

\* the handler of the call runs: its side effect happens
\* crypto.randomUUID(): a value that no earlier call returned
randomUUID(s) == s.hist.uuids + 1

\* the handler of the call runs, with a fresh toolCallId: its side effect
\* happens
Executed(c, key) ==
  [c EXCEPT !.t.execd = Append(@, key),
            !.t.multiExec = IF Top(c).multi THEN @ + 1 ELSE @,
            !.t.stack[Len(c.t.stack)].toolCallId = randomUUID(c.s),
            !.s.hist.uuids = @ + 1]

\* const dedupeKey = `${conversationId}::${botId}::${meta.responseId ||
\* 'no-resp'}::${meta.toolCallId || 'no-call'}`; a session has one bot
dedupeKey(s, meta) ==
  [ conversationId |-> s.conversationId, responseId |-> "no-resp",
    toolCallId |-> IF meta.toolCallId = 0 THEN "no-call" ELSE meta.toolCallId ]

\* the outcomes of the back end of ejecutar_orden_n8n: the transaction on
\* SentActions commits or throws, and n8n answers the POST or does not
TxFailed(ret) == ret \in {"success_unrecorded", "error_unrecorded"}
Status(ret) ==
  IF ret = "success_unrecorded" THEN "success"
  ELSE IF ret = "error_unrecorded" THEN "error"
  ELSE ret

\* ejecutar_orden_n8n from the transaction on: the key is looked up and
\* written unless the transaction throws, a key that was there ends the
\* handler with "Duplicate suppressed", and otherwise the order is posted
ejecutar_orden_n8n(c, f) ==
  LET key == dedupeKey(c.s, f)
      alreadySent == ~TxFailed(f.ret) /\ key \in c.s.hist.sentActions
  IN IF alreadySent
     THEN [c EXCEPT !.t.suppressed = @ + 1, !.t.stack[Len(c.t.stack)].ret = "success"]
     ELSE [c EXCEPT !.s.hist.sentActions = IF TxFailed(f.ret) THEN @ ELSE @ \cup {key},
                    !.t.posted = Append(@, key),
                    !.t.stack[Len(c.t.stack)].ret = Status(f.ret)]

RegisteredAlways(s, name) == TRUE

\* if (!toolHandlers[name]) { ... return; }
Registered(s, name) == name \in s.toolHandlers

\* the frame of sendFunctionResponseToGemini(name, payload)
ResponseFrame(name, status) ==
  [Frame("sendFunctionResponseToGemini") EXCEPT !.call = [name |-> name, args |-> "none"],
                                                !.result = status]

\* args.orden.toLowerCase() of a value that is not a string
OrdenThrows(fc) == fc.name = "ejecutar_orden_n8n" /\ fc.args = "no_texto"

\* result.properties.map(...) of a result without the list of properties
SummaryThrows(name, res) == name = "search_properties" /\ res = "malformed"

CaughtSilently(c, name) ==
  [c EXCEPT !.t.thrown = Append(@, [tool |-> name, at |-> Len(c.t.log)])]

\* catch (err) { safeSend(clientWs, {type: "tool_execution_end", success: false}); ...
Caught(c, name) ==
  safeSend([c EXCEPT !.t.thrown = Append(@, [tool |-> name, at |-> Len(c.t.log)])],
           ToolMsg("tool_execution_end", name, FALSE))

ClearedOnlyAfterRecord(seen, f) == IF f.result = "none" THEN seen ELSE {}

\* finally { seenToolCalls.clear(); }
Cleared(seen, f) == {}

\* the dedupe keys of the dispatches of turn t that have not returned, the
\* one that is returning apart
OuterKeys(t) ==
  {Key(t.stack[i].call) : i \in {j \in 1..(Len(t.stack) - 1) :
                                   t.stack[j].fn = "handleFunctionCall"}}

SpokeNever(f) == FALSE

\* if (hadTextBeforeTool) of the silent tool
Spoke(f) == f.hadText

\* if (isSupervised && !isCorrecting) of the tool turn
SuperviseTool(s) == s.isSupervised /\ ~s.isCorrecting

handleFunctionCall(c, f) ==
  LET name == f.call.name
      key == Key(f.call)
  IN
  CASE f.pc = "entry" ->
         IF DedupeHit(c.s, key) THEN Goto(c, "finally")
         ELSE IF OrdenThrows(f.call)
         THEN Goto([c EXCEPT !.s.seenToolCalls = @ \cup {key}, !.t.passed = @ + 1], "catch")
         ELSE LET c1 == safeSend([c EXCEPT !.s.seenToolCalls = @ \cup {key},
                                           !.t.passed = @ + 1],
                                 ToolMsg("tool_execution_start", name, TRUE))
              IN IF ~Registered(c1.s, name)
                 THEN Call(c1, "unregistered", ResponseFrame(name, "error"))
                 ELSE IF name = "abrir_modal_agendamiento"
                      THEN Goto(abrir_modal_agendamiento(Executed(c1, key)), "after_tool")
                 ELSE IF name = "navegar_web"
                      THEN Goto(navegar_web(Executed(c1, key)), "after_tool")
                 ELSE IF name = "ejecutar_orden_n8n" /\ c1.s.conversationId = NoId
                      THEN Goto([Executed(c1, key) EXCEPT
                                   !.t.stack[Len(c.t.stack)].result = "error"], "after_tool")
                 ELSE Goto(Executed(c1, key), "await_tool")
    [] f.pc = "unregistered" ->
         Call(safeSend(c, ToolMsg("tool_execution_end", name, FALSE)), "finally",
              Frame("streamFollowUpAfterTool"))
    [] f.pc = "after_tool" ->
         LET c0 == IF name = "ejecutar_orden_n8n" /\ f.ret # "none"
                   THEN ejecutar_orden_n8n(c, f) ELSE c
             res == IF f.ret = "none" THEN f.result ELSE Top(c0).ret
             c1 == safeSend([c0 EXCEPT !.t.stack[Len(c.t.stack)].result = res],
                            ToolMsg("tool_execution_end", name,
                                    res \in {"success", "malformed"}))
         IN IF SummaryThrows(name, res) THEN Goto(c1, "catch")
            ELSE IF name = "search_properties"
            THEN Call(c1, "record", Frame("getGeminiResponse"))
            ELSE IF name = "navegar_web"
            THEN IF Spoke(f) THEN Goto(c1, "record")
                 ELSE Call(c1, "record", Frame("getGeminiResponse"))
            ELSE IF name = "abrir_modal_agendamiento"
            THEN Call(c1, "record", ResponseFrame(name, res))
            ELSE IF res = "success" /\ f.call.args = "email"
            THEN Call([c1 EXCEPT !.t.gens = @ + 1, !.t.texty = @ + 1], "record",
                      CommitFrame(1, FALSE, TRUE))
            ELSE Call(c1, "record", Frame("getGeminiResponse"))
    [] f.pc = "record" ->
         LET c1 == [c EXCEPT !.s.fullConversationTranscript = Append(@, "TOOL"),
                             !.t.records = @ + 1]
             c2 == IF HasDoc(c1.s) THEN IssueUpdate(c1, FALSE) ELSE c1
             c3 == IF SuperviseTool(c2.s) THEN triggerSupervisorWorkflow(c2, "tool") ELSE c2
         IN Goto([c3 EXCEPT !.s.currentUserTranscript = "", !.s.isCorrecting = FALSE], "finally")
    [] f.pc = "catch" ->
         Call(Caught(c, name), "caught", ResponseFrame(name, "error"))
    [] f.pc = "caught" ->
         Call(c, "finally", Frame("streamFollowUpAfterTool"))
    [] f.pc = "finally" ->
         LET kept == Cleared(c.s.seenToolCalls, f)
             lost == (OuterKeys(c.t) \cap c.s.seenToolCalls) \ kept
         IN Return([c EXCEPT !.s.seenToolCalls = kept,
                             !.t.orphaned = @ + Cardinality(lost)])

sendFunctionResponseToGemini(c, f) ==
  CASE f.pc = "entry" ->
         Goto(StartModelCall([c EXCEPT !.t.responses = Append(@,
                [tool |-> f.call.name, status |-> f.result, at |-> Len(c.t.log),
                 events |-> c.s.hist.nEvents])]),
              "await_send")
    [] f.pc = "sent" ->
         IF f.ret = "ok" THEN Return(c)
         ELSE Goto(StartModelCall(c), "await_fallback")
    [] f.pc = "fallback_done" -> Return(c)

streamFollowUpAfterTool(c, f) ==
  CASE f.pc = "entry" ->
         Goto(StartModelCall([c EXCEPT !.t.followUps = Append(@, Len(c.t.log))]),
              "await_stream")
    [] f.pc = "stream" ->
         LET acc == ConsumeParts(f.stream, [text |-> 0, call |-> NoCall, handled |-> FALSE])
             c1 == [SendDeltas(c, acc.text) EXCEPT !.t.stack[Len(c.t.stack)].stream = <<>>]
         IN IF f.ret = "error"
            THEN StreamFailed(c1)
            ELSE Call([c1 EXCEPT !.t.gens = @ + 1,
                                 !.t.texty = IF acc.text > 0 THEN @ + 1 ELSE @],
                      "ret", CommitFrame(acc.text, FALSE, TRUE))
    [] f.pc = "ret" -> Return(c)

(* ----------------------- handlers of the connection ------------------- *)
\* case "conversation.item.create" with an input_text item
conversation_item_create(c, f) ==
  CASE f.pc = "entry" ->
         LET c1 == [c EXCEPT !.s.currentUserTranscript = "texto",
                             !.s.fullConversationTranscript = Append(@, "USUARIO (con texto)")]
             c2 == IF HasDoc(c1.s) THEN IssueUpdate(c1, FALSE) ELSE c1
         IN Call(c2, "ret", Frame("getGeminiResponse"))
    [] f.pc = "ret" -> Return(c)

\* case "tour_assistant_message": the text is appended to the transcript
\* and given to the model as context; nothing is sent to the client
tour_assistant_message(c, f) ==
  CASE f.pc = "entry" ->
         IF f.text = 0 THEN Return(c)
         ELSE LET c1 == [c EXCEPT !.s.fullConversationTranscript = Append(@, "AI-BOT (Tour)")]
                  c2 == IF HasDoc(c1.s) THEN IssueUpdate(c1, FALSE) ELSE c1
              IN IF c2.s.geminiChat THEN Goto(StartModelCall(c2), "await_send")
                 ELSE Return(c2)
    [] f.pc = "sent" -> Return(c)

\* String.prototype.trim and toLowerCase on the transcripts of the model
trim(str) == IF str = " " THEN "" ELSE IF str = " Hola " THEN "Hola" ELSE str
toLowerCase(str) == IF str \in {"Hola", "HOLA"} THEN "hola" ELSE str

NormVerbatim(transcript) == transcript

\* const norm = transcript.trim().toLowerCase();
Norm(transcript) == toLowerCase(trim(transcript))

\* a final result of the speech service
onSpeechData(c, f) ==
  CASE f.pc = "entry" ->
         LET norm == Norm(f.transcript)
             c1 == IF f.transcript # "" THEN safeSend(c, Msg("transcript")) ELSE c
         IN IF norm # "" /\ norm # c1.s.lastFinalNorm
            THEN LET c2 == [c1 EXCEPT !.s.lastFinalNorm = norm,
                                      !.s.currentUserTranscript = norm,
                                      !.s.fullConversationTranscript = Append(@, "USUARIO (por voz)")]
                     c3 == IF HasDoc(c2.s) THEN IssueUpdate(c2, FALSE) ELSE c2
                 IN Call(c3, "ret", Frame("getGeminiResponse"))
            ELSE Return(c1)
    [] f.pc = "ret" -> Return(c)

\* case "user_action_pending"
user_action_pending(c, f) == Return(SetPaused(c))

CompletionIgnoredNever(s) == FALSE

\* if (!isPausedForUserAction) break;
CompletionIgnored(s) == ~s.isPausedForUserAction

\* case "user_action_completed"
user_action_completed(c, f) ==
  CASE f.pc = "entry" ->
         IF CompletionIgnored(c.s) THEN Return(c)
         ELSE LET c1 == [c EXCEPT !.s.isPausedForUserAction = FALSE]
              IN IF ~c1.s.geminiChat
                 THEN Return([safeSend(c1, Msg("error")) EXCEPT !.t.failed = TRUE])
                 ELSE Goto(StartModelCall(c1), "await_send")
    [] f.pc = "sent" ->
         IF f.ret = "ok" THEN Call(c, "ret", Frame("getGeminiResponse"))
         ELSE Return([safeSend(c, Msg("error")) EXCEPT !.t.failed = TRUE])
    [] f.pc = "ret" -> Return(c)

\* the dedupe of resumeWithBookingData: by identifier, else by time window
Abs(x) == IF x < 0 THEN -x ELSE x

DuplicateById(s, bookingId) ==
  bookingId # NoId /\ s.lastBookingIdProcessed # NoId /\ bookingId = s.lastBookingIdProcessed

DuplicateByWindow(s, bookingId, startISO) ==
  /\ bookingId = NoId /\ startISO # NoStart /\ s.lastBookingStartISO # NoStart
  /\ Abs(startISO - s.lastBookingStartISO) <= NEAR_WINDOW_MS
  /\ (s.now - s.bookingAnnouncedTs) < ANTI_DUP_MS

\* bookkeeping: the invocation for booking f has run to its end, at c.s.now
Announced(c, f) ==
  [c EXCEPT !.s.hist.processed = IF f.id # NoId THEN @ \cup {f.id} ELSE @,
            !.s.hist.announced = [start |-> f.start, at |-> c.s.now]]

\* the resume capability of the registry entry
resumeWithBookingData(c, f) ==
  CASE f.pc = "entry" ->
         IF DuplicateById(c.s, f.id) \/ DuplicateByWindow(c.s, f.id, f.start)
         THEN Return(c)
         ELSE LET c1 == IF c.s.wsOpen THEN safeSend(c, Msg("booking_completed")) ELSE c
                  c2 == [c1 EXCEPT !.s.isPausedForUserAction = FALSE,
                                   !.t.stack[Len(c.t.stack)].ts = c.s.now]
              IN Goto(StartModelCall(c2), "await_send")
    [] f.pc = "sent" ->
         IF f.ret = "ok" THEN Call(c, "announced", Frame("getGeminiResponse"))
         ELSE Return([c EXCEPT !.t.failed = TRUE])
    [] f.pc = "announced" ->
         Return(Announced([c EXCEPT
           !.s.lastBookingIdProcessed = IF f.id # NoId THEN f.id ELSE @,
           !.s.lastBookingStartISO = IF f.start # NoStart THEN f.start ELSE @,
           !.s.bookingAnnouncedTs = f.ts], f))

\* the correction capability of the registry entry
applyCorrection(c, f) ==
  CASE f.pc = "entry" ->
         IF c.s.conversationId = NoId THEN Return(c)
         ELSE Goto(IssueTransaction(
                [c EXCEPT !.s.fullConversationTranscript = Append(@, "SUPERVISOR")]),
                "await_tx")
    [] f.pc = "tx_done" ->
         Goto(StartModelCall([c EXCEPT !.s.isCorrecting = TRUE]), "await_send")
    [] f.pc = "sent" ->
         IF f.ret = "ok" THEN Call(c, "ret", Frame("getGeminiResponse"))
         ELSE Return([c EXCEPT !.t.failed = TRUE])
    [] f.pc = "ret" -> Return(c)

\* case "start_conversation"
start_conversation(c, f) ==
  CASE f.pc = "entry" -> Goto(c, "await_cfg")
    [] f.pc = "cfg_done" ->
         IF f.ret # "ok" THEN Return([safeSend(c, Msg("error")) EXCEPT !.t.failed = TRUE])
         ELSE LET c1 == [c EXCEPT !.s.isSupervised = f.cfg.supervised,
                                  !.s.toolHandlers = f.cfg.tools,
                                  !.s.geminiChat = TRUE]
              IN IF c1.s.conversationId = NoId THEN Goto(c1, "await_add")
                 ELSE Goto(c1, "info")
    [] f.pc = "add_done" ->
         IF f.ret # "ok" THEN Return([safeSend(c, Msg("error")) EXCEPT !.t.failed = TRUE])
         ELSE Goto([c EXCEPT !.s.conversationId = "c1",
                             !.s.activeConnections = @ \cup {"c1"}], "info")
    [] f.pc = "info" ->
         Call(safeSend(c, Msg("info")), "ret", Frame("getGeminiResponse"))
    [] f.pc = "ret" -> Return(c)

(* ------------------------------ scheduler ----------------------------- *)
\* runs the task of a configuration up to its next await or to its end
RECURSIVE Run(_)
Run(c) ==
  IF c.t.stack = <<>> THEN c
  ELSE LET f == Top(c) IN
    IF f.pc \in AwaitPcs THEN c
    \* the step is evaluated once, then the run goes on from its result
    ELSE CHOOSE r \in {Run(n) : n \in {
      CASE f.fn = "getGeminiResponse" -> getGeminiResponse(c, f)
        [] f.fn = "commitAssistantFinal" -> commitAssistantFinal(c, f)
        [] f.fn = "handleFunctionCall" -> handleFunctionCall(c, f)
        [] f.fn = "sendFunctionResponseToGemini" -> sendFunctionResponseToGemini(c, f)
        [] f.fn = "streamFollowUpAfterTool" -> streamFollowUpAfterTool(c, f)
        [] f.fn = "conversation.item.create" -> conversation_item_create(c, f)
        [] f.fn = "onSpeechData" -> onSpeechData(c, f)
        [] f.fn = "user_action_completed" -> user_action_completed(c, f)
        [] f.fn = "resumeWithBookingData" -> resumeWithBookingData(c, f)
        [] f.fn = "applyCorrection" -> applyCorrection(c, f)
        [] f.fn = "start_conversation" -> start_conversation(c, f)
        [] f.fn = "user_action_pending" -> user_action_pending(c, f)
        [] f.fn = "tour_assistant_message" -> tour_assistant_message(c, f)}} : TRUE

\* what is kept of a turn when its handler has returned
Summary(t) == [t EXCEPT !.stack = <<>>]

One(t) == SetToBag({t})

\* the request that a returned invocation of resumeWithBookingData served
Served(s, t) ==
  [NoRequest EXCEPT !.signedWith = CALCOM_WEBHOOK_SECRET, !.trigger = "BOOKING_CREATED",
                    !.conversationId = s.conversationId, !.id = t.id, !.start = t.start]

\* await connection.resumeWithBookingData(p); return res.status(200)
Answered(s, t) ==
  IF t.kind = "resumeWithBookingData"
  THEN [s EXCEPT !.hist.http = Http("/webhook/booking-completed", 200, Served(s, t))]
  ELSE s

\* the state after task c.t has run, rest being the other tasks: a task
\* whose handler has returned leaves the bag
Finish(c0, rest) ==
  \E c \in {c0} :
  IF c.t.stack = <<>>
  THEN Apply(Answered([c.s EXCEPT !.hist.lastTurn = Summary(c.t)], c.t), rest)
  ELSE Apply(c.s, rest (+) One(c.t))

CountRace(race, fr) ==
  IF fr.fn = "resumeWithBookingData"
  THEN [race EXCEPT !.webhooks = @ + 1, !.whStart = fr.start]
  ELSE IF fr.fn = "user_action_completed"
  THEN [race EXCEPT !.uacs = @ + 1, !.uacStart = fr.start]
  ELSE race

\* an event starts a handler, which runs up to its first await; http is
\* the answer that the HTTP caller of the handler has got by then
StartWith(fr, http) ==
  LET s0 == [State EXCEPT !.hist.nEvents = @ + 1, !.hist.race = CountRace(@, fr),
                          !.hist.http = http,
                          !.hist.nWebhooks = IF fr.fn = "resumeWithBookingData"
                                             THEN @ + 1 ELSE @]
      c1 == Run([s |-> s0,
                 t |-> [NewTask(fr.fn, fr) EXCEPT !.paused = isPausedForUserAction]])
      c2 == [c1 EXCEPT !.s.hist.arrived = Summary(c1.t)]
  IN /\ c1.t.stack = <<>> \/ BagCardinality(tasks) < MaxTasks
     /\ Finish(c2, tasks)

Start(fr) == StartWith(fr, NoResponse)

Arrive(fr) ==
  /\ hist.nEvents < MaxEvents
  /\ Start(fr)

\* the I/O that task t awaits completes with outcome ret (and stream parts)
Complete(s, t, ret, parts) ==
  LET n == Len(t.stack)
      t1 == [t EXCEPT !.stack[n].pc = Resumed(t.stack[n].pc),
                      !.stack[n].ret = ret, !.stack[n].stream = parts]
  IN Finish(Run([s |-> s, t |-> t1]), tasks (-) One(t))

Running == BagToSet(tasks)
Awaits(t, pcs) == t.stack[Len(t.stack)].pc \in pcs

(* ------------------------------- actions ------------------------------ *)
Init ==
  /\ wsOpen = TRUE
  /\ geminiChat = FALSE
  /\ conversationId = NoId
  /\ isSupervised = FALSE
  /\ toolHandlers = {}
  /\ isPausedForUserAction = FALSE
  /\ seenToolCalls = {}
  /\ isCorrecting = FALSE
  /\ fullConversationTranscript = <<>>
  /\ currentUserTranscript = ""
  /\ lastFinalNorm = ""
  /\ lastBookingIdProcessed = NoId
  /\ lastBookingStartISO = NoStart
  /\ bookingAnnouncedTs = 0
  /\ activeConnections = {}
  /\ tasks = EmptyBag
  /\ stored = <<>>
  /\ writes = {}
  /\ pendingBookingEvents = {}
  /\ now = StartNow
  /\ recognizeStream = NoStream
  /\ sttListeners = {}
  /\ hist = [ nEvents |-> 0, fcEmitted |-> 0, failures |-> 0, ticks |-> 0,
              arrived |-> IdleTask, lastTurn |-> IdleTask, race |-> NoRace,
              finalReports |-> 0, nWebhooks |-> 0, processed |-> {},
              streamFailures |-> 0, http |-> NoResponse, spoke |-> FALSE,
              uuids |-> 0, sentActions |-> {},
              supervisions |-> 0, answered |-> 0, supervisionFailed |-> FALSE,
              stt |-> NoSttEvent,
              announced |-> [start |-> NoStart, at |-> 0] ]

\* client messages
RecvStartConversation(cfgs) ==
  \E cfg \in cfgs :
    /\ wsOpen /\ conversationId = NoId
    /\ \A t \in Running : t.kind # "start_conversation"
    /\ LET c1 == Run([s |-> State,
                      t |-> NewTask("start_conversation",
                                    [Frame("start_conversation") EXCEPT !.cfg = cfg])])
       IN Finish(c1, tasks)

RecvItemCreate ==
  /\ wsOpen
  /\ Arrive(Frame("conversation.item.create"))

\* the speech service delivers a final result with one of the transcripts
SpeechResult(transcripts) ==
  \E transcript \in transcripts :
    /\ wsOpen
    /\ Arrive([Frame("onSpeechData") EXCEPT !.transcript = transcript])

SpeechFinal == SpeechResult(FinalTranscripts)

RecvUserActionPending ==
  /\ wsOpen
  /\ Arrive(Frame("user_action_pending"))

\* the client reports what its guided tour said, or an empty text
RecvTourMessage ==
  \E text \in {0, 1} :
    /\ wsOpen
    /\ Arrive([Frame("tour_assistant_message") EXCEPT !.text = text])

RecvUserActionCompleted ==
  \E appt \in AppointmentData :
    /\ wsOpen
    /\ Arrive([Frame("user_action_completed") EXCEPT !.start = appt])

\* const endStt = ...: the stream in use, whichever it is, is ended and
\* forgotten; its end event is yet to come
endStt(s) == [s EXCEPT !.recognizeStream = NoStream]

\* const startSttStream = ...: endStt("restart"), then a new stream whose
\* error and end handlers call endStt
startSttStream(s) ==
  LET new == s.hist.nEvents + 1
  IN [endStt(s) EXCEPT !.recognizeStream = new, !.sttListeners = @ \cup {new}]

\* case "audio.start"
AudioStart ==
  /\ wsOpen /\ hist.nEvents < MaxEvents
  /\ Apply(startSttStream([State EXCEPT
              !.hist.nEvents = @ + 1,
              !.hist.stt = [event |-> "audio.start", stream |-> NoStream,
                            active |-> recognizeStream]]), tasks)

\* case "audio.stop"
AudioStop ==
  /\ wsOpen /\ hist.nEvents < MaxEvents
  /\ Apply(endStt([State EXCEPT
              !.hist.nEvents = @ + 1,
              !.hist.stt = [event |-> "audio.stop", stream |-> NoStream,
                            active |-> recognizeStream]]), tasks)

\* a stream that was created emits error or end, once: .on("error", ...)
\* reports to the client and calls endStt, .on("end", ...) calls endStt
SttEvent(events) ==
  \E stream \in sttListeners, event \in events :
    Apply(endStt([State EXCEPT
            !.sttListeners = @ \ {stream},
            !.hist.stt = [event |-> event, stream |-> stream,
                          active |-> recognizeStream]]), tasks)

ReportableAlways(s) == TRUE

\* if (conversationId && fullConversationTranscript.trim() !== "")
Reportable(s) == s.conversationId # NoId /\ s.fullConversationTranscript # <<>>

\* clientWs.on("close")
Close ==
  /\ wsOpen
  /\ hist.nEvents < MaxEvents
  /\ Apply([endStt(State) EXCEPT
        !.wsOpen = FALSE,
        !.hist.stt = [event |-> "close", stream |-> NoStream, active |-> recognizeStream],
        !.activeConnections = IF conversationId # NoId THEN @ \ {conversationId} ELSE @,
        !.hist.nEvents = @ + 1,
        !.hist.finalReports = IF Reportable(State) THEN @ + 1 ELSE @],
        tasks)

\* POST /webhook/booking-completed for a conversation with a registry entry
BookingWebhook(evs) ==
  \E ev \in evs :
    /\ conversationId \in activeConnections
    /\ hist.nWebhooks < MaxWebhooks
    /\ Start([Frame("resumeWithBookingData") EXCEPT !.id = ev.id, !.start = ev.start])

\* POST /inject-correction for a conversation with a registry entry
InjectCorrection ==
  /\ conversationId \in activeConnections
  /\ Arrive(Frame("applyCorrection"))

\* the checks of POST /inject-correction, in the order of the code
InjectStatusBodyFirst(req, registry) ==
  IF req.conversationId = NoId \/ ~req.correctionMessage THEN 400
  ELSE IF SUPERVISOR_SECRET = "" \/ req.secret # SUPERVISOR_SECRET THEN 401
  ELSE IF req.conversationId \notin registry THEN 404
  ELSE 200

InjectStatus(req, registry) ==
  IF SUPERVISOR_SECRET = "" \/ req.secret # SUPERVISOR_SECRET THEN 401
  ELSE IF req.conversationId = NoId \/ ~req.correctionMessage THEN 400
  ELSE IF req.conversationId \notin registry THEN 404
  ELSE 200

InjectRequests ==
  { [NoRequest EXCEPT !.secret = sec, !.conversationId = id, !.correctionMessage = m] :
      sec \in {SUPERVISOR_SECRET, "equivocado", "none"},
      id \in {NoId, "c1", "c9"}, m \in BOOLEAN }

\* POST /inject-correction
PostInjectCorrection(reqs) ==
  \E req \in reqs :
    LET status == InjectStatus(req, activeConnections)
        http == Http("/inject-correction", status, req)
    IN /\ hist.nEvents < MaxEvents
       /\ IF status = 200
          THEN StartWith(Frame("applyCorrection"), http)
          ELSE Apply([State EXCEPT !.hist.nEvents = @ + 1, !.hist.http = http], tasks)

\* what POST /webhook/booking-completed does with a request: the checks in
\* the order of the code
BookingRouteWithoutRegistry(req, registry) ==
  IF CALCOM_WEBHOOK_SECRET # "" /\ req.signedWith = "none" THEN "unsigned"
  ELSE IF CALCOM_WEBHOOK_SECRET # "" /\ req.signedWith # CALCOM_WEBHOOK_SECRET THEN "forged"
  ELSE IF ~req.json THEN "unparsable"
  ELSE IF req.trigger # "BOOKING_CREATED" THEN "ignored"
  ELSE IF req.conversationId = NoId THEN "anonymous"
  ELSE "fallback"

BookingRoute(req, registry) ==
  IF CALCOM_WEBHOOK_SECRET # "" /\ req.signedWith = "none" THEN "unsigned"
  ELSE IF CALCOM_WEBHOOK_SECRET # "" /\ req.signedWith # CALCOM_WEBHOOK_SECRET THEN "forged"
  ELSE IF ~req.json THEN "unparsable"
  ELSE IF req.trigger # "BOOKING_CREATED" THEN "ignored"
  ELSE IF req.conversationId = NoId THEN "anonymous"
  ELSE IF req.conversationId \in registry THEN "live"
  ELSE "fallback"

\* the answer on each route; ret is the outcome of the write of the
\* pending event
BookingStatus(route, ret) ==
  CASE route = "unsigned" -> 400
    [] route = "forged" -> 401
    [] route = "unparsable" -> 500
    [] route = "ignored" -> 200
    [] route = "anonymous" -> 400
    [] route = "live" -> 200
    [] route = "fallback" -> IF ret = "ok" THEN 200 ELSE 500

\* a BOOKING_CREATED payload for the session, correctly signed
GoodRequest ==
  [NoRequest EXCEPT !.signedWith = CALCOM_WEBHOOK_SECRET, !.trigger = "BOOKING_CREATED",
                    !.conversationId = "c1", !.id = "b1", !.start = 0]

\* correctly signed payloads of either event and any conversation, a body
\* that is not JSON, and requests for the session that are not or wrongly
\* signed
BookingRequests ==
  { [GoodRequest EXCEPT !.trigger = tr, !.conversationId = id] :
      tr \in {"BOOKING_CREATED", "BOOKING_CANCELLED"}, id \in {NoId, "c1", "c9"} }
  \cup { [GoodRequest EXCEPT !.json = FALSE, !.trigger = "none", !.conversationId = NoId,
                             !.id = NoId, !.start = NoStart],
         [GoodRequest EXCEPT !.signedWith = "falso"],
         [GoodRequest EXCEPT !.signedWith = "none"] }

\* latestRef.set(bookingData, {merge: true})
SetPending(pending, req) ==
  {e \in pending : e.conv # req.conversationId}
    \cup {[conv |-> req.conversationId, id |-> req.id, start |-> req.start]}

\* POST /webhook/booking-completed: on the live route the answer is given
\* when resumeWithBookingData has returned
PostBookingWebhook(reqs, rets) ==
  \E req \in reqs, ret \in rets :
    LET route == BookingRoute(req, activeConnections)
        status == BookingStatus(route, ret)
        failed == route = "fallback" /\ ret = "error"
    IN /\ hist.nWebhooks < MaxWebhooks
       /\ failed => hist.failures < MaxFailures
       /\ IF route = "live"
          THEN StartWith([Frame("resumeWithBookingData") EXCEPT
                            !.id = req.id, !.start = req.start],
                         Http("/webhook/booking-completed", 0, req))
          ELSE Apply([State EXCEPT
                 !.pendingBookingEvents =
                    IF route = "fallback" /\ ret = "ok" THEN SetPending(@, req) ELSE @,
                 !.hist.nEvents = @ + 1, !.hist.nWebhooks = @ + 1,
                 !.hist.failures = IF failed THEN @ + 1 ELSE @,
                 !.hist.http = Http("/webhook/booking-completed", status, req)], tasks)

\* the model answers a streaming call of a handler of one of the kinds:
\* parts, then the end or a failure
ModelStreamReturns(kinds, streams, rets) ==
  \E t \in Running, parts \in streams, ret \in rets :
    /\ t.kind \in kinds
    /\ Awaits(t, {"await_stream"})
    /\ hist.fcEmitted + CountCalls(parts) <= MaxFunctionCalls
    /\ ret = "error" => hist.failures < MaxFailures /\ CountCalls(parts) = 0 /\ Len(parts) <= 1
    /\ Complete([State EXCEPT !.hist.fcEmitted = @ + CountCalls(parts),
                              !.hist.failures = IF ret = "error" THEN @ + 1 ELSE @],
                t, ret, parts)

\* the model answers geminiChat.sendMessage
ModelSendReturns(rets) ==
  \E t \in Running, ret \in rets :
    /\ Awaits(t, {"await_send", "await_fallback"})
    /\ ret = "error" => hist.failures < MaxFailures
    /\ Complete([State EXCEPT !.hist.failures = IF ret = "error" THEN @ + 1 ELSE @],
                t, ret, <<>>)

\* the back end of a tool handler answers
ToolReturns ==
  \E t \in Running, ret \in {"success", "error"} :
    /\ Awaits(t, {"await_tool"})
    /\ Complete(State, t, ret, <<>>)

\* the transaction on SentActions throws, and n8n answers the POST that
\* the tool handler makes all the same
IdempotencyWriteFails ==
  \E t \in Running, ret \in {"success_unrecorded", "error_unrecorded"} :
    /\ Awaits(t, {"await_tool"})
    /\ t.stack[Len(t.stack)].call.name = "ejecutar_orden_n8n"
    /\ Complete(State, t, ret, <<>>)

\* the search service answers with a success that lacks the list of
\* properties it announces
ToolReturnsMalformed ==
  \E t \in Running :
    /\ Awaits(t, {"await_tool"})
    /\ t.stack[Len(t.stack)].call.name = "search_properties"
    /\ Complete(State, t, "malformed", <<>>)

\* the answers to the POST of triggerSupervisorWorkflow
SupervisorOutcomes == {"ok", "non2xx", "network", "timeout"}

RetriedOnFailure(posts, ret) == IF ret = "ok" THEN posts ELSE posts + 1

\* .then(response => ...).catch(error => console.error(...)): the outcome is
\* logged and the POST is not made again
Retried(posts, ret) == posts

\* the supervisor answers a POST of triggerSupervisorWorkflow, or the POST
\* fails
SupervisorAnswers(rets) ==
  \E ret \in rets :
    /\ hist.answered < hist.supervisions
    /\ Apply([State EXCEPT !.hist.answered = @ + 1,
                           !.hist.supervisions = Retried(@, ret),
                           !.hist.supervisionFailed = ret # "ok"], tasks)

\* the store answers the reads and the document creation of start_conversation
StoreReturns(rets) ==
  \E t \in Running, ret \in rets :
    /\ Awaits(t, {"await_cfg", "await_add"})
    /\ ret = "error" => hist.failures < MaxFailures
    /\ Complete([State EXCEPT !.hist.failures = IF ret = "error" THEN @ + 1 ELSE @],
                t, ret, <<>>)

\* a write of the transcript that no handler awaits reaches the document
WriteLands ==
  \E w \in writes :
    Apply([State EXCEPT !.writes = @ \ {w}, !.stored = w], tasks)

\* the awaited write of commitAssistantFinal reaches the document
CommitWriteLands ==
  \E t \in Running :
    /\ Awaits(t, {"await_write"})
    /\ Complete([State EXCEPT !.stored = t.stack[Len(t.stack)].snap], t, "ok", <<>>)

\* the transaction of applyCorrection commits: it appends to what the
\* document holds at that moment
TransactionCommits ==
  \E t \in Running :
    /\ Awaits(t, {"await_tx"})
    /\ Complete([State EXCEPT !.stored = @ \o t.stack[Len(t.stack)].snap], t, "ok", <<>>)

\* time passes
Tick ==
  /\ hist.ticks < MaxTicks
  /\ Apply([State EXCEPT !.now = @ + 1, !.hist.ticks = @ + 1], tasks)

Outcomes == {"ok", "error"}
HandlerKinds == {"start_conversation", "conversation.item.create", "onSpeechData",
                 "user_action_pending", "user_action_completed",
                 "resumeWithBookingData", "applyCorrection", "tour_assistant_message"}

Next ==
  \/ RecvStartConversation(BotConfigs)
  \/ RecvItemCreate
  \/ SpeechFinal
  \/ RecvUserActionPending
  \/ RecvUserActionCompleted
  \/ RecvTourMessage
  \/ AudioStart
  \/ AudioStop
  \/ SttEvent({"end", "error"})
  \/ Close
  \/ hist.nEvents < MaxEvents /\ BookingWebhook(BookingEvents)
  \/ InjectCorrection
  \/ PostInjectCorrection(InjectRequests)
  \/ PostBookingWebhook(BookingRequests, Outcomes)
  \/ ModelStreamReturns(HandlerKinds, Streams, Outcomes)
  \/ ModelSendReturns(Outcomes)
  \/ ToolReturns
  \/ ToolReturnsMalformed
  \/ IdempotencyWriteFails
  \/ StoreReturns(Outcomes)
  \/ WriteLands
  \/ CommitWriteLands
  \/ TransactionCommits
  \/ SupervisorAnswers(SupervisorOutcomes)
  \/ Tick

Spec == Init /\ [][Next]_vars

(* ---------------------- sessions of one kind of use ------------------- *)
\* a bot with every tool and no supervision, and one that is supervised
FullBot == {[supervised |-> FALSE, tools |-> ToolNames]}
SupervisedBot == {[supervised |-> TRUE, tools |-> ToolNames]}

\* the streams whose function calls are among calls
StreamsOf(calls) == SeqsUpTo({TextPart} \cup {CallPart(fc) : fc \in calls}, MaxParts)

TurnKinds == HandlerKinds \ {"start_conversation"}

\* start_conversation has returned: the session has its chat and its document
Greeted ==
  /\ geminiChat /\ conversationId # NoId
  /\ \A t \in Running : t.kind # "start_conversation"

\* no handler is in progress: the client waits for the answer to an input
\* before it sends the next
Idle == tasks = EmptyBag

OpenModal == [name |-> "abrir_modal_agendamiento", args |-> "x"]
Navigate == [name |-> "navegar_web", args |-> "inicio"]

\* a session whose greeting may open the booking modal and whose client
\* pauses, types, speaks and reports the end of the booking. No handler
\* reads the document or learns of an un-awaited write, so the landing of
\* those writes is left to the sessions that are about the document
NextPause ==
  \/ RecvStartConversation(FullBot)
  \/ StoreReturns({"ok"})
  \/ Greeted /\ RecvItemCreate
  \/ Greeted /\ SpeechFinal
  \/ Greeted /\ RecvUserActionPending
  \/ Greeted /\ RecvUserActionCompleted
  \/ ModelStreamReturns({"start_conversation"}, StreamsOf({OpenModal}), {"ok"})
  \/ ModelStreamReturns(TurnKinds, StreamsOf({}), Outcomes)
  \/ ModelSendReturns(Outcomes)
  \/ CommitWriteLands

SpecPause == Init /\ [][NextPause]_vars

\* a session whose greeting opens the booking modal; the booking is then
\* reported by the client and by the webhook
NextResume ==
  \/ RecvStartConversation(FullBot)
  \/ StoreReturns({"ok"})
  \/ ModelStreamReturns({"start_conversation"}, StreamsOf({OpenModal}), {"ok"})
  \/ Greeted /\ RecvUserActionCompleted
  \/ Greeted /\ hist.nEvents < MaxEvents /\ BookingWebhook(BookingEvents)
  \/ ModelStreamReturns(TurnKinds, StreamsOf({}), Outcomes)
  \/ ModelSendReturns(Outcomes)
  \/ CommitWriteLands

SpecResume == Init /\ [][NextResume]_vars

\* a greeted session in which the model answers typed inputs with text and
\* with calls of abrir_modal_agendamiento, and the client reports the end
\* of the booking
NextModal ==
  \/ RecvStartConversation(FullBot)
  \/ StoreReturns({"ok"})
  \/ ModelStreamReturns({"start_conversation"}, {<<TextPart>>}, {"ok"})
  \/ Greeted /\ RecvItemCreate
  \/ Greeted /\ RecvUserActionCompleted
  \/ ModelStreamReturns(TurnKinds, StreamsOf({OpenModal}), {"ok"})
  \/ ModelSendReturns(Outcomes)
  \/ CommitWriteLands

SpecModal == Init /\ [][NextModal]_vars

\* a session paused by its greeting, to which the booking webhook is
\* delivered while the client may announce another pending action
NextWebhook ==
  \/ RecvStartConversation(FullBot)
  \/ StoreReturns({"ok"})
  \/ ModelStreamReturns({"start_conversation"}, StreamsOf({OpenModal}), {"ok"})
  \/ Greeted /\ hist.nEvents < MaxEvents /\ BookingWebhook(BookingEvents)
  \/ Greeted /\ RecvUserActionPending
  \/ ModelStreamReturns(TurnKinds, StreamsOf({}), Outcomes)
  \/ ModelSendReturns(Outcomes)
  \/ CommitWriteLands

SpecWebhook == Init /\ [][NextWebhook]_vars

\* a bot without tools
PlainBot == {[supervised |-> FALSE, tools |-> {}]}

\* the start of a session of a bot without tools, whose client may type
\* before the greeting has arrived
NextGreeting ==
  \/ RecvStartConversation(PlainBot)
  \/ StoreReturns(Outcomes)
  \/ geminiChat /\ RecvItemCreate
  \/ ModelStreamReturns(HandlerKinds, StreamsOf({}), Outcomes)
  \/ CommitWriteLands

SpecGreeting == Init /\ [][NextGreeting]_vars

\* a session whose client may disconnect at any moment, also during
\* start_conversation
NextClose ==
  \/ RecvStartConversation(FullBot)
  \/ StoreReturns(Outcomes)
  \/ Close
  \/ Greeted /\ RecvItemCreate
  \/ ModelStreamReturns(HandlerKinds, StreamsOf({}), Outcomes)
  \/ CommitWriteLands

SpecClose == Init /\ [][NextClose]_vars

\* a session of a supervised bot whose supervisor posts corrections, well
\* formed or not, before, during and after the life of the session
NextInject ==
  \/ RecvStartConversation(SupervisedBot)
  \/ StoreReturns({"ok"})
  \/ PostInjectCorrection(InjectRequests)
  \/ Close
  \/ TransactionCommits
  \/ ModelSendReturns({"ok"})
  \/ ModelStreamReturns(HandlerKinds, StreamsOf({}), {"ok"})
  \/ CommitWriteLands

SpecInject == Init /\ [][NextInject]_vars

\* a session to which, and past which, the scheduling service posts
\* webhooks, well formed or not, while the store may fail
NextBookingPost ==
  \/ RecvStartConversation(FullBot)
  \/ StoreReturns({"ok"})
  \/ hist.nEvents < MaxEvents /\ PostBookingWebhook(BookingRequests, Outcomes)
  \/ Close
  \/ ModelSendReturns({"ok"})
  \/ ModelStreamReturns(HandlerKinds, StreamsOf({}), {"ok"})
  \/ CommitWriteLands

SpecBookingPost == Init /\ [][NextBookingPost]_vars

\* two bookings with identifiers, and the events without one
Bookings == BookingEvents \cup {[id |-> "b2", start |-> 3]}

\* a greeted session to which the booking webhook is delivered again and
\* again, each delivery after the previous one was handled, while time passes
NextReplay ==
  \/ RecvStartConversation(FullBot)
  \/ StoreReturns({"ok"})
  \/ ModelStreamReturns({"start_conversation"}, {<<TextPart>>}, {"ok"})
  \/ Greeted /\ Idle /\ BookingWebhook(Bookings)
  \/ ModelSendReturns(Outcomes)
  \/ ModelStreamReturns(TurnKinds, StreamsOf({}), Outcomes)
  \/ CommitWriteLands
  \/ Greeted /\ Tick

SpecReplay == Init /\ [][NextReplay]_vars

SendOrder == [name |-> "ejecutar_orden_n8n", args |-> "otro"]
SendEmail == [name |-> "ejecutar_orden_n8n", args |-> "email"]
Unregistered == [name |-> "desconocida", args |-> "x"]

\* a greeted session in which the client types one input at a time and the
\* model answers with text and with calls of the two silent tools
NextSilent ==
  \/ RecvStartConversation(FullBot)
  \/ StoreReturns({"ok"})
  \/ ModelStreamReturns({"start_conversation"}, {<<TextPart>>}, {"ok"})
  \/ Greeted /\ Idle /\ RecvItemCreate
  \/ ModelStreamReturns(TurnKinds, StreamsOf({Navigate, OpenModal}), Outcomes)
  \/ ModelSendReturns(Outcomes)
  \/ CommitWriteLands

SpecSilent == Init /\ [][NextSilent]_vars

BadOrder == [name |-> "ejecutar_orden_n8n", args |-> "no_texto"]
Search == [name |-> "search_properties", args |-> "q"]

\* a greeted session in which the client types one input at a time and the
\* dispatch of the tools may throw: the model asks for an order that is not
\* a string, and the search service answers without the list it announces
NextThrow ==
  \/ RecvStartConversation(FullBot)
  \/ StoreReturns({"ok"})
  \/ ModelStreamReturns({"start_conversation"}, {<<TextPart>>}, {"ok"})
  \/ Greeted /\ Idle /\ RecvItemCreate
  \/ ModelStreamReturns(TurnKinds, StreamsOf({BadOrder, Search}), Outcomes)
  \/ ModelSendReturns(Outcomes)
  \/ ToolReturns
  \/ ToolReturnsMalformed
  \/ CommitWriteLands

SpecThrow == Init /\ [][NextThrow]_vars

\* the (tool name, arguments) pairs the model draws its calls from: both
\* tools are followed by a generation nested in their dispatch
ChainCalls == {Search, Navigate}

\* the answers of the model to one call: text, one call, or text and a call
ChainStreams ==
  {<<TextPart>>} \cup {<<CallPart(fc)>> : fc \in ChainCalls}
                 \cup {<<TextPart, CallPart(fc)>> : fc \in ChainCalls}

\* a greeted session in which the client types one input at a time and the
\* model answers every call, also the calls made inside a tool dispatch,
\* with text or with a call of a data tool or of navegar_web
NextChain ==
  \/ RecvStartConversation(FullBot)
  \/ StoreReturns({"ok"})
  \/ ModelStreamReturns({"start_conversation"}, {<<TextPart>>}, {"ok"})
  \/ Greeted /\ Idle /\ RecvItemCreate
  \/ ModelStreamReturns(TurnKinds, ChainStreams, Outcomes)
  \/ ToolReturns
  \/ CommitWriteLands

\* every call the handlers await is answered: the store, the model and the
\* tool service return, and the write of a commit lands
ChainAnswered ==
  /\ WF_vars(StoreReturns({"ok"}))
  /\ WF_vars(ModelStreamReturns({"start_conversation"}, {<<TextPart>>}, {"ok"}))
  /\ WF_vars(ModelStreamReturns(TurnKinds, ChainStreams, Outcomes))
  /\ WF_vars(ToolReturns)
  /\ WF_vars(CommitWriteLands)

SpecChain == Init /\ [][NextChain]_vars /\ ChainAnswered

\* a greeted session in which the client types one input at a time, the
\* model answers with text and with orders for n8n, and the transaction on
\* SentActions may throw
NextOrder ==
  \/ RecvStartConversation(FullBot)
  \/ StoreReturns({"ok"})
  \/ ModelStreamReturns({"start_conversation"}, {<<TextPart>>}, {"ok"})
  \/ Greeted /\ Idle /\ RecvItemCreate
  \/ ModelStreamReturns(TurnKinds, StreamsOf({SendOrder, SendEmail}), {"ok"})
  \/ ToolReturns
  \/ IdempotencyWriteFails
  \/ CommitWriteLands

SpecOrder == Init /\ [][NextOrder]_vars

\* the answers of the model in such a session: text, a call of a silent
\* tool, or text and then the call of the scheduling tool
FlagStreams ==
  { <<TextPart>>, <<CallPart(OpenModal)>>, <<CallPart(Navigate)>>,
    <<TextPart, CallPart(OpenModal)>> }

\* a greeted session whose client types, announces and reports external
\* actions and may leave, whose booking webhook and supervisor post, and
\* whose model fails or answers with text and calls of the two silent tools
NextFlag ==
  \/ RecvStartConversation(FullBot)
  \/ StoreReturns({"ok"})
  \/ ModelStreamReturns({"start_conversation"}, {<<TextPart>>}, {"ok"})
  \/ Greeted /\ Idle /\ RecvItemCreate
  \/ Greeted /\ RecvUserActionPending
  \/ Greeted /\ RecvUserActionCompleted
  \/ Greeted /\ hist.nEvents < MaxEvents /\ BookingWebhook({[id |-> "b1", start |-> 0]})
  \/ Greeted /\ Idle /\ InjectCorrection
  \/ Greeted /\ Close
  \/ TransactionCommits
  \/ ModelStreamReturns({"conversation.item.create", "applyCorrection"}, FlagStreams,
                        Outcomes)
  \/ ModelStreamReturns({"user_action_completed", "resumeWithBookingData"},
                        {<<TextPart>>}, {"ok"})
  \/ ModelSendReturns(Outcomes)
  \/ CommitWriteLands

SpecFlag == Init /\ [][NextFlag]_vars

\* a greeted session in which the client types one input at a time and the
\* model answers with text, with calls of navegar_web and with calls of a
\* tool the bot lacks
NextRefuse ==
  \/ RecvStartConversation(FullBot)
  \/ StoreReturns({"ok"})
  \/ ModelStreamReturns({"start_conversation"}, {<<TextPart>>}, {"ok"})
  \/ Greeted /\ Idle /\ RecvItemCreate
  \/ ModelStreamReturns(TurnKinds, StreamsOf({Navigate, Unregistered}), Outcomes)
  \/ ModelSendReturns(Outcomes)
  \/ CommitWriteLands

SpecRefuse == Init /\ [][NextRefuse]_vars

\* a greeted session whose client announces an external action and then,
\* one event at a time, types and reports its tour while the supervisor
\* posts corrections; the model answers with text, with nothing, or fails
NextDrop ==
  \/ RecvStartConversation(FullBot)
  \/ StoreReturns({"ok"})
  \/ ModelStreamReturns({"start_conversation"}, {<<TextPart>>}, {"ok"})
  \/ Greeted /\ Idle /\ RecvUserActionPending
  \/ Greeted /\ Idle /\ RecvItemCreate
  \/ Greeted /\ Idle /\ RecvTourMessage
  \/ Greeted /\ Idle /\ InjectCorrection
  \/ TransactionCommits
  \/ ModelSendReturns(Outcomes)
  \/ ModelStreamReturns(TurnKinds, StreamsOf({}), Outcomes)
  \/ CommitWriteLands

SpecDrop == Init /\ [][NextDrop]_vars

\* a greeted session whose user speaks, also while the answer to an earlier
\* utterance is awaited, and whose model answers with text
NextEcho ==
  \/ RecvStartConversation(FullBot)
  \/ StoreReturns({"ok"})
  \/ ModelStreamReturns({"start_conversation"}, {<<TextPart>>}, {"ok"})
  \/ Greeted /\ SpeechResult(RawTranscripts)
  \/ ModelStreamReturns(TurnKinds, {<<TextPart>>}, {"ok"})
  \/ CommitWriteLands

SpecEcho == Init /\ [][NextEcho]_vars

\* a greeted session of a supervised bot whose client types one input at a
\* time and whose supervisor answers the reports, or fails to, at any time
NextReport ==
  \/ RecvStartConversation(SupervisedBot)
  \/ StoreReturns({"ok"})
  \/ ModelStreamReturns({"start_conversation"}, {<<TextPart>>}, {"ok"})
  \/ Greeted /\ Idle /\ RecvItemCreate
  \/ ModelStreamReturns(TurnKinds, StreamsOf({SendOrder}), {"ok"})
  \/ ToolReturns
  \/ CommitWriteLands
  \/ SupervisorAnswers(SupervisorOutcomes)

SpecReport == Init /\ [][NextReport]_vars

\* a session whose client starts and stops the audio and may leave, and
\* whose transcription streams end or fail at any time
NextStt ==
  \/ RecvStartConversation(FullBot)
  \/ StoreReturns({"ok"})
  \/ ModelStreamReturns({"start_conversation"}, {<<TextPart>>}, {"ok"})
  \/ CommitWriteLands
  \/ AudioStart
  \/ AudioStop
  \/ SttEvent({"end", "error"})
  \/ Close

SpecStt == Init /\ [][NextStt]_vars

\* the streams that begin with a function call: their text parts, if any,
\* come after it
CallFirst(streams) ==
  {q \in streams : CountCalls(q) = 0 \/ Head(q).call # NoCall}

\* a greeted session in which the client types one input at a time and the
\* model, when it calls a tool, puts the call first and its text after it
NextDeferred ==
  \/ RecvStartConversation(FullBot)
  \/ StoreReturns({"ok"})
  \/ ModelStreamReturns({"start_conversation"}, {<<TextPart>>}, {"ok"})
  \/ Greeted /\ Idle /\ RecvItemCreate
  \/ ModelStreamReturns(TurnKinds, CallFirst(StreamsOf({SendOrder, Navigate})), Outcomes)
  \/ ToolReturns
  \/ CommitWriteLands

SpecDeferred == Init /\ [][NextDeferred]_vars

\* a greeted session in which the client types one input at a time and the
\* model answers with text and with calls of ejecutar_orden_n8n and of a
\* tool the bot lacks
NextTurn ==
  \/ RecvStartConversation(FullBot)
  \/ StoreReturns({"ok"})
  \/ ModelStreamReturns({"start_conversation"}, {<<TextPart>>}, {"ok"})
  \/ Greeted /\ Idle /\ RecvItemCreate
  \/ ModelStreamReturns(TurnKinds, StreamsOf({SendOrder, SendEmail, Unregistered}), Outcomes)
  \/ ModelSendReturns(Outcomes)
  \/ ToolReturns
  \/ CommitWriteLands

SpecTurn == Init /\ [][NextTurn]_vars

\* a greeted session in which the client types without waiting for the
\* answer to its previous input
NextOverlap ==
  \/ RecvStartConversation(FullBot)
  \/ StoreReturns({"ok"})
  \/ ModelStreamReturns({"start_conversation"}, {<<TextPart>>}, {"ok"})
  \/ Greeted /\ RecvItemCreate
  \/ ModelStreamReturns(TurnKinds, StreamsOf({SendOrder}), {"ok"})
  \/ ToolReturns
  \/ CommitWriteLands

SpecOverlap == Init /\ [][NextOverlap]_vars

\* a greeted session of typed and spoken turns, one at a time, with the
\* writes of the transcript landing in any order
NextStore ==
  \/ RecvStartConversation(FullBot)
  \/ StoreReturns({"ok"})
  \/ ModelStreamReturns({"start_conversation"}, {<<TextPart>>}, {"ok"})
  \/ Greeted /\ Idle /\ RecvItemCreate
  \/ Greeted /\ Idle /\ SpeechFinal
  \/ ModelStreamReturns(TurnKinds, StreamsOf({}), {"ok"})
  \/ WriteLands
  \/ CommitWriteLands

SpecStore == Init /\ [][NextStore]_vars

\* a greeted session of a supervised bot: the supervisor corrects and the
\* client types, one at a time
NextSupervision ==
  \/ RecvStartConversation(SupervisedBot)
  \/ StoreReturns({"ok"})
  \/ ModelStreamReturns({"start_conversation"}, {<<TextPart>>}, {"ok"})
  \/ Greeted /\ Idle /\ InjectCorrection
  \/ Greeted /\ Idle /\ RecvItemCreate
  \/ TransactionCommits
  \/ ModelSendReturns({"ok"})
  \/ ModelStreamReturns(TurnKinds, StreamsOf({SendOrder}), {"ok"})
  \/ ToolReturns
  \/ CommitWriteLands

SpecSupervision == Init /\ [][NextSupervision]_vars

(* ------------------------------ properties --------------------------- *)
UserInputKinds == {"conversation.item.create", "onSpeechData"}
UserTurns == {"USUARIO (con texto)", "USUARIO (por voz)"}

\* the task sent no message of the Dialogue Engine or of the tool executor
EngineSilent(t) == \A i \in 1..Len(t.log) : t.log[i].type \notin EngineMsgTypes

\* C1: a typed text or a final voice transcript that arrives while
\* isPausedForUserAction is true starts no call of the model and sends no
\* message of the engine to the client
C1_PausedInputIsSilent ==
  [][ (isPausedForUserAction /\ hist'.arrived.kind \in UserInputKinds)
        => (hist'.arrived.calls = 0 /\ EngineSilent(hist'.arrived)) ]_vars

\* the second of two inputs delivered during one pause has just been dropped
C1_Witness ==
  /\ isPausedForUserAction
  /\ hist.arrived.kind \in UserInputKinds /\ hist.arrived.discarded
  /\ tasks = EmptyBag
  /\ LET n == Len(fullConversationTranscript)
     IN n >= 2 /\ fullConversationTranscript[n] \in UserTurns
               /\ fullConversationTranscript[n - 1] \in UserTurns

\* C2: when a wait for a booking has seen one webhook event and one client
\* completion for the same booking and every handler has returned without a
\* model failure, exactly one narration was started and the pause flag is
\* false
C2_ResumeRaceConverges ==
  ( /\ hist.race.waiting
    /\ hist.race.webhooks = 1 /\ hist.race.uacs = 1
    /\ hist.race.whStart # NoStart /\ hist.race.whStart = hist.race.uacStart
    /\ tasks = EmptyBag /\ hist.failures = 0 )
  => (hist.race.narr = 1 /\ ~isPausedForUserAction)

\* the client completion and the webhook event of one booking have each
\* started a narration
C2_BugReached ==
  /\ hist.race.waiting
  /\ hist.race.webhooks = 1 /\ hist.race.uacs = 1
  /\ hist.race.whStart = 0 /\ hist.race.uacStart = 0
  /\ tasks = EmptyBag /\ hist.failures = 0
  /\ hist.race.narr = 2

\* the handler invocations in progress and the one that has just returned
Turns == Running \cup {hist.lastTurn}

\* C3 (as amended): of a stream with two or more function calls exactly one
\* call, the first, is dispatched to handleFunctionCall, and at most one
\* handler runs for the stream
C3_OnlyFirstCallDispatched ==
  /\ \A t \in Turns :
        t.notFirst = 0 /\ t.multiDisp <= t.multi /\ t.multiExec <= t.multiDisp
  /\ hist.lastTurn.multiDisp = hist.lastTurn.multi
  /\ \A t \in Running : \A i \in 2..Len(t.stack) :
        t.stack[i].fn = "handleFunctionCall"
          => /\ t.stack[i - 1].fn = "getGeminiResponse"
             /\ t.stack[i].call = t.stack[i - 1].first

\* a turn has returned whose stream of two calls had its first call executed
C3_Witness ==
  /\ hist.lastTurn.multi = 1 /\ hist.lastTurn.multiDisp = 1
  /\ hist.lastTurn.multiExec = 1

\* C3 (as stated): every stream with two or more function calls has exactly
\* one handler executed
C3_ExactlyOneHandlerRuns ==
  hist.lastTurn.multiExec = hist.lastTurn.multi

\* the keys of a sequence are pairwise different
NoRepeat(q) == \A i, j \in 1..Len(q) : i # j => q[i] # q[j]

\* C4: within one logical turn no function call (tool name and arguments)
\* has its handler executed twice
C4_DedupeWithinTurn == \A t \in Turns : NoRepeat(t.execd)

\* one turn has run the handler of the same call twice
C4_BugReached ==
  \E t \in Turns :
    /\ t.kind = "conversation.item.create"
    /\ Len(t.execd) = 2 /\ t.execd[1] = t.execd[2]

\* C5: the corrective turn started by applyCorrection sends no supervision
\* report, neither for its text nor for its tool
C5_CorrectionNotReported ==
  \A t \in Turns : t.kind = "applyCorrection" => t.reports = <<>>

\* a corrective turn has returned after sending a tool report
C5_BugReached ==
  /\ hist.lastTurn.kind = "applyCorrection"
  /\ isSupervised
  /\ \E i \in 1..Len(hist.lastTurn.reports) : hist.lastTurn.reports[i].type = "tool"

\* C6: no write that lands makes the persisted transcript shorter, and when
\* no write is in flight and no handler is in progress the persisted
\* transcript is the transcript of the session
C6_TranscriptNeverLosesTurns ==
  [][ /\ Len(stored') >= Len(stored)
      /\ (writes' = {} /\ tasks' = EmptyBag /\ conversationId' # NoId)
           => stored' = fullConversationTranscript' ]_vars

\* every write has landed and the persisted transcript lacks the last turn
C6_BugReached ==
  /\ writes = {} /\ tasks = EmptyBag /\ conversationId # NoId
  /\ Len(stored) < Len(fullConversationTranscript)

CalledModel == {t \in Running : t.calls >= 1}

\* C8: at most one handler invocation that has called the model is in
\* progress: no turn starts a call of the model while an earlier turn has
\* not returned
C8_OneTurnAtATime ==
  /\ Cardinality(CalledModel) <= 1
  /\ \A t \in CalledModel : CopiesIn(t, tasks) = 1

\* two typed inputs are being answered by the model at the same time
C8_BugReached ==
  \E t \in Running :
    /\ t.kind = "conversation.item.create" /\ Awaits(t, {"await_stream"})
    /\ \/ CopiesIn(t, tasks) >= 2
       \/ \E u \in Running : u # t /\ u.kind = "conversation.item.create"
                                   /\ Awaits(u, {"await_stream"})

\* C9: user_action_completed that arrives while isPausedForUserAction is
\* false calls no model, sends nothing and leaves the session as it was
C9_CompletionWhileRunningIgnored ==
  [][ (~isPausedForUserAction /\ hist'.arrived.kind = "user_action_completed")
        => /\ hist'.arrived.calls = 0 /\ hist'.arrived.log = <<>>
           /\ UNCHANGED <<isPausedForUserAction, fullConversationTranscript,
                          currentUserTranscript, lastBookingIdProcessed,
                          lastBookingStartISO, bookingAnnouncedTs, isCorrecting,
                          seenToolCalls, tasks, stored, writes>> ]_vars

\* a completion has just been ignored while the greeting turn was answered
C9_Witness ==
  /\ ~isPausedForUserAction
  /\ hist.arrived.kind = "user_action_completed"
  /\ hist.arrived.calls = 0
  /\ fullConversationTranscript # <<>>


\* the invocations of resumeWithBookingData in progress for a booking
ResumesInProgress(id) ==
  {t \in Running : t.kind = "resumeWithBookingData" /\ t.id = id}

\* C10: an invocation of resumeWithBookingData that arrives while an earlier
\* invocation for the same booking identifier awaits the model sends no
\* booking_completed and starts no call of the model
C10_SecondResumeIsNoOp ==
  [][ ( /\ hist'.arrived.kind = "resumeWithBookingData"
        /\ hist'.arrived.id # NoId
        /\ \E t \in ResumesInProgress(hist'.arrived.id) :
              Awaits(t, {"await_send", "await_stream"}) )
      => ( /\ hist'.arrived.calls = 0
           /\ \A i \in 1..Len(hist'.arrived.log) :
                 hist'.arrived.log[i].type # "booking_completed" ) ]_vars

\* two invocations for booking b1 are in progress and the second has sent
\* booking_completed and called the model
C10_BugReached ==
  /\ hist.arrived.kind = "resumeWithBookingData" /\ hist.arrived.id = "b1"
  /\ hist.arrived.calls = 1
  /\ \E i \in 1..Len(hist.arrived.log) : hist.arrived.log[i].type = "booking_completed"
  /\ \/ Cardinality(ResumesInProgress("b1")) >= 2
     \/ \E t \in ResumesInProgress("b1") : CopiesIn(t, tasks) >= 2

\* C11: a delivery of the booking webhook whose booking identifier was
\* already handled to the end by the session sends nothing to the client,
\* calls no model and leaves the pause flag as it was
C11_ReplayedIdIsNoOp ==
  [][ ( /\ hist'.arrived.kind = "resumeWithBookingData"
        /\ hist'.arrived.id \in hist.processed )
      => ( /\ hist'.arrived.calls = 0 /\ hist'.arrived.log = <<>>
           /\ tasks' = tasks
           /\ isPausedForUserAction' = isPausedForUserAction ) ]_vars

\* booking b1 was handled, then b2, and the replay of b1 has sent
\* booking_completed and called the model
C11_BugReached ==
  /\ hist.arrived.kind = "resumeWithBookingData" /\ hist.arrived.id = "b1"
  /\ hist.processed = {"b1", "b2"} /\ lastBookingIdProcessed = "b2"
  /\ hist.arrived.calls = 1
  /\ \E i \in 1..Len(hist.arrived.log) : hist.arrived.log[i].type = "booking_completed"

\* C12: a booking event without identifier whose start is within
\* NEAR_WINDOW_MS of the start of the event the session announced last, and
\* that arrives less than ANTI_DUP_MS after that announcement, sends nothing
\* to the client, calls no model and changes nothing of the session
C12_NearEventIsNoOp ==
  [][ ( /\ hist'.arrived.kind = "resumeWithBookingData"
        /\ hist'.arrived.id = NoId /\ hist'.arrived.start # NoStart
        /\ hist.announced.start # NoStart
        /\ Abs(hist'.arrived.start - hist.announced.start) <= NEAR_WINDOW_MS
        /\ now - hist.announced.at < ANTI_DUP_MS )
      => ( /\ hist'.arrived.calls = 0 /\ hist'.arrived.log = <<>>
           /\ UNCHANGED <<isPausedForUserAction, lastBookingIdProcessed,
                          lastBookingStartISO, bookingAnnouncedTs,
                          fullConversationTranscript, currentUserTranscript,
                          isCorrecting, seenToolCalls, tasks, stored, writes>> ) ]_vars

\* an event without identifier for the slot announced less than ANTI_DUP_MS
\* ago has sent booking_completed and called the model
C12_BugReached ==
  /\ hist.arrived.kind = "resumeWithBookingData"
  /\ hist.arrived.id = NoId /\ hist.arrived.start = 0
  /\ hist.announced.start = 0 /\ lastBookingStartISO = 0
  /\ now - hist.announced.at < ANTI_DUP_MS
  /\ now - bookingAnnouncedTs >= ANTI_DUP_MS
  /\ hist.arrived.calls = 1
  /\ \E i \in 1..Len(hist.arrived.log) : hist.arrived.log[i].type = "booking_completed"

\* tool_execution_start of the tool and, later, schedule_appointment_action
StartThenAction(log, name) ==
  \E i, j \in 1..Len(log) :
    /\ i < j
    /\ log[i] = ToolMsg("tool_execution_start", name, TRUE)
    /\ log[j].type = "schedule_appointment_action"

\* the turns that gave a call of abrir_modal_agendamiento to handleFunctionCall
AskedModal(t) == \E i \in 1..Len(t.asked) : t.asked[i] = <<OpenModal.name, OpenModal.args>>

\* C13: a turn in which the model requested abrir_modal_agendamiento, on an
\* open connection, has sent tool_execution_start for it and then
\* schedule_appointment_action; when the dispatch has finished and no resume
\* event came meanwhile the pause flag is true; and a typed input that
\* arrives while the flag is true calls no model and sends no message of
\* the engine
C13_ModalPausesSession ==
  [][ /\ (AskedModal(hist'.lastTurn) /\ wsOpen')
          => /\ StartThenAction(hist'.lastTurn.log, OpenModal.name)
             /\ (hist'.race.uacs = 0 /\ hist'.race.webhooks = 0)
                   => isPausedForUserAction'
      /\ (isPausedForUserAction /\ hist'.arrived.kind = "conversation.item.create")
          => (hist'.arrived.calls = 0 /\ EngineSilent(hist'.arrived)) ]_vars

\* a turn in which the model requested the booking modal has returned, on
\* an open connection, without tool_execution_start and without
\* schedule_appointment_action
C13_BugReached ==
  /\ AskedModal(hist.lastTurn) /\ wsOpen
  /\ hist.lastTurn.kind = "conversation.item.create"
  /\ \A i \in 1..Len(hist.lastTurn.log) :
        hist.lastTurn.log[i].type \notin {"tool_execution_start", "schedule_appointment_action"}

\* the dedupe of resumeWithBookingData lets the event pass
NotDuplicate(s, t) ==
  ~(DuplicateById(s, t.id) \/ DuplicateByWindow(s, t.id, t.start))

\* C14: a webhook event that is not a duplicate and reaches a paused session
\* through its registry entry sends booking_completed, clears the pause
\* flag and sends the instruction to the model; when the model has accepted
\* the instruction one engine turn is started, and the pause check does not
\* discard it
C14_WebhookResumes ==
  [][ /\ ( /\ hist'.arrived.kind = "resumeWithBookingData"
            /\ isPausedForUserAction /\ NotDuplicate(State, hist'.arrived) )
          => ( /\ hist'.arrived.log = <<Msg("booking_completed")>>
               /\ ~isPausedForUserAction'
               /\ hist'.arrived.calls = 1 )
      /\ ( /\ hist'.lastTurn.kind = "resumeWithBookingData"
            /\ hist'.lastTurn.paused /\ hist'.lastTurn.calls >= 1
            /\ ~(hist'.lastTurn.failed /\ hist'.lastTurn.calls = 1) )
          => ( ~hist'.lastTurn.discarded /\ hist'.lastTurn.calls = 2 ) ]_vars

\* the engine turn of a webhook event that reached a paused session was
\* discarded by the pause check
C14_BugReached ==
  /\ hist.lastTurn.kind = "resumeWithBookingData"
  /\ hist.lastTurn.paused /\ ~hist.lastTurn.failed
  /\ hist.lastTurn.log = <<Msg("booking_completed")>>
  /\ hist.lastTurn.discarded /\ hist.lastTurn.calls = 1
  /\ isPausedForUserAction

\* the handler of start_conversation among the handlers in progress and the
\* one that has just returned
Starting(ts) == {t \in ts : t.kind = "start_conversation"}

\* info is the first message and assistant_final the last, with only
\* deltas between them
InfoThenFinal(log) ==
  /\ Len(log) >= 2
  /\ log[1].type = "info" /\ log[Len(log)].type = "assistant_final"
  /\ \A i \in 2..(Len(log) - 1) : log[i].type = "assistant_delta"

\* C15: in the step in which start_conversation of a bot without tools
\* commits its greeting, the client has received info and then
\* assistant_final, and the transcript is one assistant turn
C15_GreetingAfterInfo ==
  [][ \A t \in Starting(Running), u \in Starting(Running' \cup {hist'.lastTurn}) :
        (toolHandlers' = {} /\ t.finals = 0 /\ u.finals = 1)
          => ( /\ InfoThenFinal(u.log)
               /\ fullConversationTranscript' = <<"AI-BOT">> ) ]_vars

\* the greeting was committed after a typed input: the transcript holds the
\* user turn before the greeting
C15_BugReached ==
  /\ toolHandlers = {} /\ geminiChat
  /\ \E u \in Starting(Turns) : u.finals = 1 /\ InfoThenFinal(u.log)
  /\ fullConversationTranscript = <<"USUARIO (con texto)", "AI-BOT">>

\* the error messages among the messages of a task
RECURSIVE Errors(_)
Errors(log) ==
  IF log = <<>> THEN 0
  ELSE (IF Head(log).type = "error" THEN 1 ELSE 0) + Errors(Tail(log))

\* C16: a turn of user input whose streaming call fails sends exactly one
\* error message; the failing step leaves the connection open, the pause
\* flag as it was and nothing new in the dedupe set; and after a failure a
\* typed input on a session that is not paused starts a call of the model
C16_SessionSurvivesModelFailure ==
  [][ /\ \A t \in Running' \cup {hist'.lastTurn} :
            t.kind \in UserInputKinds
              => (Errors(t.log) = t.streamFails /\ t.streamFails <= 1)
      /\ hist'.streamFailures > hist.streamFailures
            => /\ wsOpen' = wsOpen
               /\ isPausedForUserAction' = isPausedForUserAction
               /\ seenToolCalls' \subseteq seenToolCalls
      /\ ( /\ hist.streamFailures >= 1 /\ wsOpen /\ geminiChat
            /\ ~isPausedForUserAction
            /\ hist'.arrived.kind = "conversation.item.create" )
            => (hist'.arrived.calls = 1 /\ ~hist'.arrived.discarded) ]_vars

\* after a typed turn whose streaming call failed, the next typed input
\* has started a call of the model
C16_Witness ==
  /\ hist.streamFailures = 1 /\ wsOpen /\ ~isPausedForUserAction
  /\ seenToolCalls = {}
  /\ hist.arrived.kind = "conversation.item.create" /\ hist.arrived.calls = 1
  /\ BagCardinality(tasks) = 1
  /\ LET n == Len(fullConversationTranscript)
     IN n >= 2 /\ fullConversationTranscript[n] = "USUARIO (con texto)"
               /\ fullConversationTranscript[n - 1] \in {"USUARIO (con texto)", "TOOL"}

\* C17: every conversation identifier with an entry in activeConnections
\* is the one of a session whose client connection is open
C17_RegistryHoldsOpenSessions ==
  \A id \in activeConnections : id = conversationId /\ wsOpen

\* the connection was closed while start_conversation awaited the creation
\* of the document, and the entry was registered afterwards
C17_BugReached ==
  /\ ~wsOpen /\ conversationId \in activeConnections
  /\ tasks = EmptyBag

\* the state of the session, the registry and the store
sessionVars ==
  <<wsOpen, geminiChat, conversationId, isSupervised, toolHandlers,
    isPausedForUserAction, seenToolCalls, isCorrecting,
    fullConversationTranscript, currentUserTranscript, lastFinalNorm,
    lastBookingIdProcessed, lastBookingStartISO, bookingAnnouncedTs,
    activeConnections, tasks, stored, writes, pendingBookingEvents>>

C19_WebhookStatus ==
  (hist.http.route = "/webhook/booking-completed" /\ hist.http.status # 0)
    => LET req == hist.http.req IN
       hist.http.status =
         IF req.signedWith = "none" THEN 400
         ELSE IF req.signedWith # CALCOM_WEBHOOK_SECRET THEN 401
         ELSE IF req.json /\ req.trigger = "BOOKING_CREATED" /\ req.conversationId = NoId
              THEN 400
         ELSE 200

\* a correctly signed request was answered 500
C19_BugReached ==
  /\ hist.http.route = "/webhook/booking-completed"
  /\ hist.http.req.signedWith = CALCOM_WEBHOOK_SECRET
  /\ hist.http.status = 500

\* the sessions, without the store of pending events
liveVars ==
  <<wsOpen, geminiChat, conversationId, isSupervised, toolHandlers,
    isPausedForUserAction, seenToolCalls, isCorrecting,
    fullConversationTranscript, currentUserTranscript, lastFinalNorm,
    lastBookingIdProcessed, lastBookingStartISO, bookingAnnouncedTs,
    activeConnections, tasks, stored, writes>>

\* C20: a correctly signed BOOKING_CREATED request with a conversation
\* identifier invokes resumeWithBookingData of the session when the
\* registry has an entry for the identifier, and then persists nothing;
\* without an entry it touches no session and, when the store accepts the
\* write, the booking is the pending event of the conversation
C20_WebhookRouting ==
  [][ LET req == hist'.http.req IN
      ( /\ hist'.http.route = "/webhook/booking-completed"
        /\ hist'.nWebhooks > hist.nWebhooks
        /\ req.signedWith = CALCOM_WEBHOOK_SECRET /\ req.json
        /\ req.trigger = "BOOKING_CREATED" /\ req.conversationId # NoId )
      => /\ req.conversationId \in activeConnections
            => /\ hist'.arrived.kind = "resumeWithBookingData"
               /\ hist'.arrived.id = req.id /\ hist'.arrived.start = req.start
               /\ req.conversationId = conversationId
               /\ pendingBookingEvents' = pendingBookingEvents
         /\ req.conversationId \notin activeConnections
            => /\ hist'.arrived = IdleTask
               /\ UNCHANGED liveVars
               /\ hist'.http.status \in {200, 500}
               /\ hist'.http.status = 200 =>
                     pendingBookingEvents' = SetPending(pendingBookingEvents, req)
               /\ hist'.http.status = 500 => UNCHANGED pendingBookingEvents ]_vars

\* a booking for a conversation without entry is pending while the live
\* session has handled a webhook of its own
C20_Witness ==
  /\ \E e \in pendingBookingEvents : e.conv = "c9" /\ e.id = "b1"
  /\ activeConnections = {"c1"}
  /\ lastBookingIdProcessed = "b1"
  /\ \A e \in pendingBookingEvents : e.conv # "c1"

\* the messages of a type among the first n messages of a log
RECURSIVE CountType(_, _, _)
CountType(log, type, n) ==
  IF n = 0 THEN 0
  ELSE (IF log[n].type = type THEN 1 ELSE 0) + CountType(log, type, n - 1)

\* the i-th call that task t gave to handleFunctionCall came after the
\* whole of its stream: the text parts of the stream were sent as deltas and
\* committed as one assistant_final, and only the starts of earlier calls
\* were sent before that
Deferred(t, i) ==
  LET p == t.pre[i]
      log == t.log
      from == p.at - p.texts
  IN /\ CountType(log, "tool_execution_start", p.at) <= i - 1
     /\ p.texts > 0 =>
           /\ from >= 1
           /\ log[p.at].type = "assistant_final"
           /\ \A k \in from..(p.at - 1) : log[k].type = "assistant_delta"
           /\ from >= 2 => log[from - 1].type # "assistant_delta"
     /\ (Len(log) > p.at /\ Len(t.execd) >= i)
           => log[p.at + 1].type = "tool_execution_start"

\* C21: when a stream holds a function call, handleFunctionCall is called
\* after the stream was consumed to its end: every text part of the stream,
\* also one that follows the call, was sent as assistant_delta and
\* committed as one assistant_final before tool_execution_start
C21_ToolAfterWholeStream ==
  wsOpen => \A t \in Turns : \A i \in 1..Len(t.pre) : Deferred(t, i)

\* a stream of a call followed by text: the text was sent and committed,
\* then the tool was started, and its back end is awaited
C21_Witness ==
  \E t \in Running :
    /\ Awaits(t, {"await_tool"})
    /\ t.pre = <<[texts |-> 1, at |-> 2]>>
    /\ t.log = <<Msg("assistant_delta"), Msg("assistant_final"),
                 ToolMsg("tool_execution_start", "ejecutar_orden_n8n", TRUE)>>

\* task t gave the model a function response of the tool with the status,
\* after its message j
Responded(t, tool, status, j) ==
  \E r \in 1..Len(t.responses) :
    /\ t.responses[r].tool = tool /\ t.responses[r].status = status
    /\ t.responses[r].at = j

\* the calls of task t that named a tool without handler
Unhandled(t, handlers) == {i \in 1..Len(t.asked) : t.asked[i][1] \notin handlers}

\* the i-th call of task t, of a tool without handler, after
\* tool_execution_start: the error result was given to the model as a
\* function response and no handler ran; when that was done,
\* tool_execution_end with success false followed and streamFollowUpAfterTool
\* was called
RefusedAsUnregistered(t, i) ==
  LET name == t.asked[i][1]
      j == t.pre[i].at + 1
  IN /\ Len(t.log) >= j /\ t.log[j] = ToolMsg("tool_execution_start", name, TRUE)
     /\ Responded(t, name, "error", j)
     /\ \A k \in 1..Len(t.execd) : t.execd[k] # t.asked[i]
     /\ Len(t.log) > j =>
           /\ t.log[j + 1] = ToolMsg("tool_execution_end", name, FALSE)
           /\ \E k \in 1..Len(t.followUps) : t.followUps[k] = j + 1

\* C22: a call of a tool without handler runs no handler, gives an error
\* result to the model as a function response, sends tool_execution_end
\* with success false and starts a follow-up generation; when its turn has
\* returned the dedupe set is empty, and a typed input on a session that
\* is not paused starts a call of the model
C22_UnregisteredToolIsReported ==
  [][ /\ \A t \in Running' \cup {hist'.lastTurn} : \A i \in Unhandled(t, toolHandlers') :
            RefusedAsUnregistered(t, i)
      /\ \A i \in Unhandled(hist'.lastTurn, toolHandlers') :
            /\ Len(hist'.lastTurn.log) > hist'.lastTurn.pre[i].at + 1
            /\ seenToolCalls' = {} /\ ~isPausedForUserAction'
      /\ ( /\ wsOpen /\ geminiChat /\ ~isPausedForUserAction
            /\ hist'.arrived.kind = "conversation.item.create" )
            => (hist'.arrived.calls = 1 /\ ~hist'.arrived.discarded) ]_vars

\* the model has asked for tools, none of which was executed, and the
\* typed input that followed has started a call of the model
C22_Witness ==
  /\ hist.fcEmitted >= 1
  /\ \A i \in 1..Len(fullConversationTranscript) : fullConversationTranscript[i] # "TOOL"
  /\ hist.arrived.kind = "conversation.item.create" /\ hist.arrived.calls = 1
  /\ BagCardinality(tasks) = 1 /\ hist.failures = 0
  /\ LET n == Len(fullConversationTranscript)
     IN n >= 4 /\ fullConversationTranscript[n] = "USUARIO (con texto)"
               /\ fullConversationTranscript[n - 1] = "AI-BOT"
               /\ fullConversationTranscript[n - 2] = "USUARIO (con texto)"

\* C23: every call that passed the dedupe check, of a tool with or without
\* handler, has appended exactly one tool-execution record to the
\* transcript when its dispatch has returned
C23_OneRecordPerDispatch ==
  /\ \A t \in Turns : t.records <= t.passed
  /\ hist.lastTurn.records = hist.lastTurn.passed

\* a turn has returned whose only call, of a tool without handler, passed
\* the dedupe check and left no record
C23_BugReached ==
  /\ hist.lastTurn.asked = <<Key(Unregistered)>> /\ hist.lastTurn.passed = 1
  /\ hist.lastTurn.records = 0 /\ ~hist.lastTurn.failed
  /\ \A i \in 1..Len(fullConversationTranscript) : fullConversationTranscript[i] # "TOOL"

\* task t awaits the model's answer to the function response it gave
\* after message j
Responding(t, j) ==
  /\ t.stack # <<>>
  /\ t.stack[Len(t.stack)].fn = "sendFunctionResponseToGemini"
  /\ t.responses[Len(t.responses)].at = j

\* the exception x that handleFunctionCall caught in task t: the client got
\* tool_execution_end with success false, the model got an error result as
\* a function response, and when the model had taken it
\* streamFollowUpAfterTool was called
Recovered(t, x) ==
  LET j == x.at + 1
  IN /\ Len(t.log) >= j /\ t.log[j] = ToolMsg("tool_execution_end", x.tool, FALSE)
     /\ Responded(t, x.tool, "error", j)
     /\ ~Responding(t, j) => \E k \in 1..Len(t.followUps) : t.followUps[k] = j

\* C28: when a step of a tool dispatch throws, the client receives
\* tool_execution_end with success false, the model receives a synthetic
\* error result as a function response and a follow-up generation is
\* started; when the turn has returned the dedupe set is empty, and a typed
\* input on a session that is not paused starts a call of the model
C28_DispatchFailureIsReported ==
  [][ /\ \A t \in Running' \cup {hist'.lastTurn} : \A k \in 1..Len(t.thrown) :
            Recovered(t, t.thrown[k])
      /\ hist'.lastTurn.thrown # <<>> => (seenToolCalls' = {} /\ ~isPausedForUserAction')
      /\ ( /\ wsOpen /\ geminiChat /\ ~isPausedForUserAction
            /\ hist'.arrived.kind = "conversation.item.create" )
            => (hist'.arrived.calls = 1 /\ ~hist'.arrived.discarded) ]_vars

\* every call of the model's first answer threw, the follow-up text was
\* committed, and the next typed input has started a call of the model
C28_Witness ==
  /\ hist.fcEmitted >= 1 /\ hist.failures = 0
  /\ fullConversationTranscript =
       <<"AI-BOT", "USUARIO (con texto)", "AI-BOT", "USUARIO (con texto)">>
  /\ hist.arrived.kind = "conversation.item.create" /\ hist.arrived.calls = 1
  /\ BagCardinality(tasks) = 1 /\ seenToolCalls = {}

\* handleFunctionCall is among the functions that task t is executing
InDispatch(t) == \E i \in 1..Len(t.stack) : t.stack[i].fn = "handleFunctionCall"

\* the first call of a turn has a handler and its dispatch does not throw
Executable(t) ==
  /\ Len(t.asked) >= 1
  /\ t.asked[1][1] \in toolHandlers
  /\ t.asked[1] # Key(BadOrder)

\* C24: the dedupe set is empty whenever no handler invocation is inside
\* handleFunctionCall, and so the first call of every turn is executed,
\* also when an earlier turn executed the same call
C24_DedupeSetIsPerTurn ==
  /\ (\A t \in Running : ~InDispatch(t)) => seenToolCalls = {}
  /\ \A t \in Turns :
        Executable(t) => (Len(t.execd) >= 1 /\ t.execd[1] = t.asked[1])

\* the search that an earlier turn ran to its record is being run again
\* for the next input
C24_Witness ==
  /\ \E i \in 1..Len(fullConversationTranscript) : fullConversationTranscript[i] = "TOOL"
  /\ \E t \in Running :
        /\ t.kind = "conversation.item.create" /\ Awaits(t, {"await_tool"})
        /\ t.execd = <<Key(Search)>> /\ t.records = 0
  /\ seenToolCalls = {Key(Search)}

\* the first call of the turn was navegar_web and its handler ran
Navigated(t) ==
  /\ Len(t.asked) >= 1 /\ t.asked[1] = Key(Navigate)
  /\ Len(t.execd) >= 1 /\ t.execd[1] = Key(Navigate)

\* C25: a turn whose stream held text and a call of navegar_web makes no
\* call of the model after that stream; a turn whose stream held the call
\* and no text calls the Dialogue Engine exactly once more
C25_SilentToolSpeaksOnce ==
  /\ \A t \in Turns :
        Navigated(t) =>
          IF t.pre[1].texts > 0 THEN t.calls = 1 /\ t.engines = 1
          ELSE t.engines <= 2
  /\ (Navigated(hist.lastTurn) /\ hist.lastTurn.pre[1].texts = 0)
        => hist.lastTurn.engines = 2

\* a turn has returned whose stream was the call alone: the tool ran, the
\* engine was called again and its text was committed
C25_Witness ==
  /\ Navigated(hist.lastTurn) /\ hist.lastTurn.pre[1].texts = 0
  /\ hist.lastTurn.engines = 2 /\ hist.lastTurn.calls = 2
  /\ hist.lastTurn.finals = 1 /\ hist.lastTurn.records = 1
  /\ hist.lastTurn.log[Len(hist.lastTurn.log)].type = "assistant_final"

\* tool_execution_end of the booking modal
ModalEnd(m) == m.type = "tool_execution_end" /\ m.tool = OpenModal.name

\* the result of the modal that ended with message j of task t was given
\* to the model as a function response, and the task sent no text after it
ModalEndsTurn(t, j) ==
  /\ Responded(t, OpenModal.name, IF t.log[j].ok THEN "success" ELSE "error", j)
  /\ \A k \in (j + 1)..Len(t.log) : t.log[k].type \notin SpeechTypes

\* task t awaits the model's answer to the function response of the modal,
\* and no event was delivered since it gave that response
ModalJustEnded(t) ==
  /\ t.stack[Len(t.stack)].fn = "sendFunctionResponseToGemini"
  /\ t.responses[Len(t.responses)].tool = OpenModal.name
  /\ t.responses[Len(t.responses)].events = hist.nEvents

\* C26: when the handler of abrir_modal_agendamiento has returned, its
\* result is given to the model as a function response and the turn sends
\* no assistant text any more; and from tool_execution_end until the next
\* event is delivered the client receives no assistant_delta and no
\* assistant_final
C26_ModalHasNoFollowUp ==
  [][ /\ \A t \in Running' \cup {hist'.lastTurn} : \A j \in 1..Len(t.log) :
            ModalEnd(t.log[j]) => ModalEndsTurn(t, j)
      /\ ( /\ \E t \in Running : ModalJustEnded(t)
            /\ hist'.nEvents = hist.nEvents )
            => ~hist'.spoke ]_vars

\* the modal has ended, its function response is awaited, no event was
\* delivered since, and the answer to an earlier input has just been sent
\* to the client
C26_BugReached ==
  /\ isPausedForUserAction /\ hist.spoke /\ hist.arrived = IdleTask
  /\ hist.nEvents = 2
  /\ \E t \in Running :
        /\ ModalJustEnded(t)
        /\ \E j \in 1..Len(t.log) : ModalEnd(t.log[j]) /\ t.log[j].ok
  /\ \E u \in Running :
        /\ u.kind = "conversation.item.create" /\ Awaits(u, {"await_write"})
        /\ u.asked = <<>> /\ u.log[Len(u.log)].type = "assistant_final"


\* the supervision reports of a kind that a task sent
ReportsOf(t, type) == Cardinality({i \in 1..Len(t.reports) : t.reports[i].type = type})

\* no correction was injected into the session so far
NeverCorrected ==
  \A i \in 1..Len(fullConversationTranscript) :
     fullConversationTranscript[i] # "SUPERVISOR"

\* C27: in a session of a supervised bot that was never corrected, a turn
\* of user input that has returned sent one text report for each
\* assistant_final it committed (preamble, confirmation and follow-up
\* included) and one tool report for each tool it executed
C27_EveryCommitIsReported ==
  LET t == hist.lastTurn
  IN (isSupervised /\ NeverCorrected /\ t.kind = "conversation.item.create")
       => /\ ReportsOf(t, "text") = t.finals
          /\ ReportsOf(t, "tool") = Len(t.execd)

\* a turn of user input has returned after committing a preamble and a
\* confirmation around one tool, with one text report and one tool report
C27_BugReached ==
  /\ isSupervised /\ NeverCorrected
  /\ hist.lastTurn.kind = "conversation.item.create"
  /\ hist.lastTurn.finals = 2 /\ Len(hist.lastTurn.execd) = 1
  /\ hist.lastTurn.pre # <<>> /\ hist.lastTurn.pre[1].texts >= 1
  /\ ReportsOf(hist.lastTurn, "text") = 1
  /\ ReportsOf(hist.lastTurn, "tool") = 1


\* the POSTs to n8n, of the turns in progress and of the turn that returned,
\* that carried a key
PostsOf(key) ==
  {<<t, i>> \in Turns \X (1..MaxFunctionCalls) : i <= Len(t.posted) /\ t.posted[i] = key}

\* C29: every order posted to n8n has its idempotency key in SentActions,
\* written before the POST, and no key is posted more than once
C29_OrderIsIdempotent ==
  \A t \in Turns : \A i \in 1..Len(t.posted) :
     /\ t.posted[i] \in hist.sentActions
     /\ Cardinality(PostsOf(t.posted[i])) = 1

\* a turn has returned whose order reached n8n and was reported as a
\* success while SentActions holds no key for it
C29_BugReached ==
  /\ hist.lastTurn.kind = "conversation.item.create"
  /\ Len(hist.lastTurn.posted) = 1 /\ hist.lastTurn.suppressed = 0
  /\ hist.lastTurn.posted[1] \notin hist.sentActions
  /\ hist.lastTurn.posted[1].conversationId = conversationId
  /\ \E j \in 1..Len(hist.lastTurn.log) :
        /\ hist.lastTurn.log[j].type = "tool_execution_end"
        /\ hist.lastTurn.log[j].tool = "ejecutar_orden_n8n" /\ hist.lastTurn.log[j].ok
  /\ hist.sentActions # {}

NeverSuppressed == \A t \in Turns : t.suppressed = 0


\* the handler of abrir_modal_agendamiento, run by task t, has just sent
\* schedule_appointment_action and returned a success: the task reported the
\* end of the tool and awaits the model's answer to the function response
ModalOpened(t) ==
  /\ t.stack # <<>> /\ t.stack[Len(t.stack)].fn = "sendFunctionResponseToGemini"
  /\ t.stack[Len(t.stack)].pc = "await_send"
  /\ Len(t.log) >= 2
  /\ t.log[Len(t.log) - 1].type = "schedule_appointment_action"
  /\ ModalEnd(t.log[Len(t.log)]) /\ t.log[Len(t.log)].ok
  /\ Responded(t, OpenModal.name, "success", Len(t.log))

\* C30: the pause flag rises only in a step in which user_action_pending
\* arrives or in which the handler of abrir_modal_agendamiento has sent
\* schedule_appointment_action to an open client, and it falls only in a
\* step in which the booking webhook is delivered to resumeWithBookingData
\* or user_action_completed arrives at a paused session; every other step
\* leaves it as it is
C30_PauseFlagChangesByFourEvents ==
  [][ /\ (~isPausedForUserAction /\ isPausedForUserAction')
           => \/ hist'.arrived.kind = "user_action_pending"
              \/ /\ wsOpen
                 /\ \E t \in Running' : t \notin Running /\ ModalOpened(t)
      /\ (isPausedForUserAction /\ ~isPausedForUserAction')
           => \/ hist'.arrived.kind = "resumeWithBookingData"
              \/ hist'.arrived.kind = "user_action_completed" /\ hist'.arrived.paused
    ]_vars

\* the flag, raised by the scheduling tool of a typed input, has just been
\* lowered by the arrival of user_action_completed, while the turn of the
\* tool is still in progress
C30_Witness ==
  /\ ~isPausedForUserAction
  /\ hist.arrived.kind = "user_action_completed" /\ hist.arrived.paused
  /\ \E t \in Running :
        /\ t.kind = "conversation.item.create" /\ ~t.paused
        /\ ModalOpened(t)


\* the entry points, other than the inputs of the user, that feed the model
FeedKinds == {"applyCorrection", "tour_assistant_message"}

\* C31: a correction or a tour message that arrives at a paused session
\* starts no call of the model and sends nothing to the client
C31_PausedFeedIsDropped ==
  \A t \in Turns :
     (t.kind \in FeedKinds /\ t.paused) => (t.calls = 0 /\ t.log = <<>>)

\* a correction that arrived at a paused session has returned, the session
\* still paused, after a call of the model and no message to the client
C31_BugReached ==
  /\ isPausedForUserAction
  /\ hist.lastTurn.kind = "applyCorrection" /\ hist.lastTurn.paused
  /\ hist.lastTurn.calls = 1 /\ hist.lastTurn.discarded
  /\ hist.lastTurn.log = <<>>

\* the same for a tour message
TourFedWhilePaused ==
  /\ isPausedForUserAction
  /\ hist.lastTurn.kind = "tour_assistant_message" /\ hist.lastTurn.paused
  /\ hist.lastTurn.calls = 1 /\ hist.lastTurn.log = <<>>


\* C32: the final report is triggered by the disconnect and by nothing
\* else, once if the session has a conversation identifier and a transcript
\* that is not empty, and not at all otherwise; an open connection has
\* triggered none
C32_FinalReportOnceOnClose ==
  [][ /\ (wsOpen /\ ~wsOpen')
           => hist'.finalReports =
                 IF conversationId # NoId /\ fullConversationTranscript # <<>>
                 THEN 1 ELSE 0
      /\ ~(wsOpen /\ ~wsOpen') => hist'.finalReports = hist.finalReports
      /\ wsOpen => hist.finalReports = 0 ]_vars

\* the client has just left a greeted session, and the report was triggered
C32_Witness ==
  /\ ~wsOpen /\ hist.finalReports = 1
  /\ conversationId # NoId /\ fullConversationTranscript # <<>>
  /\ conversationId \notin activeConnections
  /\ tasks = EmptyBag

\* the client left while start_conversation awaited the store: no report
ClosedBeforeStart ==
  ~wsOpen /\ hist.finalReports = 0 /\ conversationId # NoId


\* the transcripts that are empty once trimmed, and the ones that say hola
Blank == {"", " "}
SaysHola == {"hola", " Hola ", "HOLA"}
Normalized(transcript) ==
  IF transcript \in Blank THEN ""
  ELSE IF transcript \in SaysHola THEN "hola" ELSE transcript

\* C33: a final transcript that is empty once normalized, or that equals the
\* last-seen one, starts no turn of the Dialogue Engine and leaves the
\* transcript and the last-seen value as they are; any other final
\* transcript starts one turn, adds the utterance to the transcript and
\* becomes the last-seen value
C33_EchoSuppression ==
  [][ hist'.arrived.kind = "onSpeechData" =>
        LET t == hist'.arrived
            said == Normalized(t.heard)
        IN IF said = "" \/ said = lastFinalNorm
           THEN /\ t.engines = 0 /\ t.calls = 0
                /\ fullConversationTranscript' = fullConversationTranscript
                /\ lastFinalNorm' = lastFinalNorm
           ELSE /\ t.engines = 1
                /\ Len(fullConversationTranscript') > Len(fullConversationTranscript)
                /\ fullConversationTranscript'[Len(fullConversationTranscript) + 1]
                      = "USUARIO (por voz)"
                /\ lastFinalNorm' = said ]_vars

\* the user has said hola again, in capitals, and nothing was started
C33_Witness ==
  /\ hist.arrived.kind = "onSpeechData" /\ hist.arrived.heard = "HOLA"
  /\ lastFinalNorm = "hola" /\ hist.arrived.engines = 0
  /\ hist.nEvents = 2
  /\ \A i \in 1..Len(hist.arrived.log) : hist.arrived.log[i].type = "transcript"


\* C34: a step in which a POST of triggerSupervisorWorkflow fails sends
\* nothing to the client, starts no other POST, and changes neither the
\* session nor the turns in progress
C34_SupervisionFailureIsSilent ==
  [][ hist'.supervisionFailed =>
        /\ UNCHANGED sessionVars
        /\ hist'.supervisions = hist.supervisions
        /\ ~hist'.spoke /\ hist'.lastTurn = IdleTask
        /\ hist'.answered = hist.answered + 1 ]_vars

\* after a tool turn a report has just failed, another report is still in
\* flight, and the next turn of the user, in progress, awaits the model
C34_Witness ==
  /\ hist.supervisionFailed /\ isSupervised
  /\ hist.supervisions = 3 /\ hist.answered = 2
  /\ fullConversationTranscript[Len(fullConversationTranscript) - 1] = "TOOL"
  /\ \E t \in Running :
        /\ t.kind = "conversation.item.create" /\ Awaits(t, {"await_stream"})
        /\ t.calls = 1 /\ t.log = <<>>


\* C35: when the corrective turn has returned, whatever its outcome, the
\* mid-correction flag is false again
C35_CorrectionFlagIsReset ==
  (hist.lastTurn.kind = "applyCorrection" /\ tasks = EmptyBag) => ~isCorrecting

\* the corrective turn of a paused session has returned, dropped by the
\* pause check, and the flag is still set
C35_BugReached ==
  /\ isCorrecting /\ tasks = EmptyBag
  /\ hist.lastTurn.kind = "applyCorrection"
  /\ hist.lastTurn.paused /\ hist.lastTurn.discarded
  /\ hist.lastTurn.finals = 0 /\ hist.lastTurn.log = <<>>

\* the same after the corrective turn of a session that is not paused: the
\* model has answered the correction prompt and the corrective generation
\* has ended without a commit
CorrectionLeftOpen ==
  /\ isCorrecting /\ tasks = EmptyBag /\ ~isPausedForUserAction
  /\ hist.lastTurn.kind = "applyCorrection"
  /\ hist.lastTurn.calls = 2 /\ hist.lastTurn.finals = 0


\* C36: a typed input that arrives at a paused session and is dropped leaves
\* the transcript, the current input of the user, the document and the
\* writes issued to the document as they were
C36_PausedInputLeavesNoTrace ==
  [][ ( /\ hist'.arrived.kind = "conversation.item.create"
        /\ hist'.arrived.paused /\ hist'.arrived.discarded )
      => UNCHANGED <<fullConversationTranscript, currentUserTranscript, stored, writes>>
    ]_vars

\* a typed input has just been dropped by the pause check: it is the last
\* line of the transcript, a write of that transcript is on its way to the
\* document, and it is the current input of the user
C36_BugReached ==
  /\ isPausedForUserAction
  /\ hist.arrived.kind = "conversation.item.create"
  /\ hist.arrived.paused /\ hist.arrived.discarded /\ hist.arrived.calls = 0
  /\ fullConversationTranscript # <<>>
  /\ fullConversationTranscript[Len(fullConversationTranscript)] = "USUARIO (con texto)"
  /\ fullConversationTranscript \in writes
  /\ currentUserTranscript = "texto"


\* C37: the transcription stream in use is given up only by audio.start,
\* by audio.stop, by the close of the connection, or by an end or error
\* event of that stream itself
C37_StaleStreamEventIsHarmless ==
  [][ (recognizeStream # NoStream /\ recognizeStream' # recognizeStream)
        => \/ hist'.stt.event \in {"audio.start", "audio.stop", "close"}
           \/ /\ hist'.stt.event \in {"end", "error"}
              /\ hist'.stt.stream = recognizeStream ]_vars

\* the end event of a stream that audio.start had replaced has just ended
\* the stream that replaced it
C37_BugReached ==
  /\ hist.stt.event = "end"
  /\ hist.stt.active # NoStream /\ hist.stt.stream # hist.stt.active
  /\ recognizeStream = NoStream
  /\ hist.stt.active \in sttListeners
  /\ wsOpen


\* C38: the tool report of a turn that a typed input started carries that
\* input as its userInput
C38_ToolReportCarriesUserInput ==
  \A t \in Turns : \A i \in 1..Len(t.reports) :
     (t.kind = "conversation.item.create" /\ t.reports[i].type = "tool")
        => t.reports[i].userInput = "texto"

\* a turn of a typed input, in a session that was never corrected, has
\* returned after a tool, a generated confirmation and a tool report whose
\* userInput is empty
C38_BugReached ==
  /\ isSupervised /\ NeverCorrected
  /\ hist.lastTurn.kind = "conversation.item.create"
  /\ hist.lastTurn.execd = <<Key(SendOrder)>> /\ hist.lastTurn.engines = 2
  /\ Len(hist.lastTurn.reports) = 2
  /\ hist.lastTurn.reports[1] = [type |-> "text", userInput |-> "texto"]
  /\ hist.lastTurn.reports[2] = [type |-> "tool", userInput |-> ""]

\* handleFunctionCall invocations in progress in a turn
Nesting(t) == Cardinality({i \in 1..Len(t.stack) : t.stack[i].fn = "handleFunctionCall"})

\* C39: every logical turn terminates. With the calls of the model drawn
\* from ChainCalls, a turn passes the dedupe check at most once per pair,
\* dispatches at most one call more than that and nests its dispatches no
\* deeper, and whenever a turn is in progress the session comes back to a
\* state with no turn in progress
C39_TurnTerminates ==
  /\ [](\A t \in Turns :
          /\ t.passed <= Cardinality(ChainCalls)
          /\ t.dispatched <= Cardinality(ChainCalls) + 1
          /\ Nesting(t) <= Cardinality(ChainCalls) + 1)
  /\ (~Idle ~> Idle)

\* a turn has returned whose chain used every pair and was ended by the
\* dedupe check: the third call it dispatched repeated the first
C39_Witness ==
  /\ Idle
  /\ hist.lastTurn.kind = "conversation.item.create"
  /\ hist.lastTurn.passed = 2 /\ hist.lastTurn.dispatched = 3
  /\ hist.lastTurn.asked = <<Key(Search), Key(Navigate), Key(Search)>>

\* C40: while a dispatch of a turn is in progress its dedupe key stays in
\* seenToolCalls: no clear of the set, also not the one of a dispatch nested
\* in it, removes the key of a dispatch of the turn that has not returned
C40_OuterKeyStaysUntilReturn ==
  \A t \in Turns : t.orphaned = 0

\* a turn has returned in which the search was followed by a generation
\* that asked for navegar_web, and the finally of that nested dispatch
\* emptied the set while the dispatch of the search was in progress
C40_BugReached ==
  /\ Idle
  /\ hist.lastTurn.asked = <<Key(Search), Key(Navigate)>>
  /\ hist.lastTurn.passed = 2
  /\ hist.lastTurn.orphaned = 1

====
